---- MODULE Spec2Model ----
(***************************************************************************)
(* A model of the silo archive library (package silo): delimiter           *)
(* detection, path validation, ParseSiloFile, findSafeDelimiter, WriteTo,  *)
(* ReadFiles and ReadDirectoryTree.                                        *)
(*                                                                         *)
(* Strings are sequences of code points.  Every place where the Go code    *)
(* indexes a string by bytes does so at a rune boundary, so the sequence   *)
(* of code points behaves like the byte string.                            *)
(***************************************************************************)
EXTENDS Integers, Sequences, FiniteSets, TLC

\* ------------------------------------------------------------------------
\* Characters the code names
\* ------------------------------------------------------------------------
SP == 32
TAB == 9
LF == 10
CR == 13
NUL == 0
GT == 62
EQ == 61
STAR == 42
DASH == 45
DOT == 46
SLASH == 47
RuneError == 65533
MaxDelimiterLength == 50

\* Characters used only to build sample inputs.
Sample == [a |-> 97, b |-> 98, d |-> 100, o |-> 111, s |-> 115, w |-> 119, x |-> 120,
           two |-> 50, five |-> 53, e |-> 101, C |-> 67,
           wheat |-> 127806, turtle |-> 128034, nbsp |-> 160]

\* ------------------------------------------------------------------------
\* Go library functions the code calls
\* ------------------------------------------------------------------------

\* unicode.IsSpace, as used by strings.TrimSpace
IsSpace(c) ==
    \/ c \in {9, 10, 11, 12, 13, 32, 133, 160, 5760, 8232, 8233, 8239, 8287, 12288}
    \/ c \in 8192..8202

RECURSIVE TrimLeft(_)
TrimLeft(s) ==
    IF s = <<>> THEN s
    ELSE IF IsSpace(Head(s)) THEN TrimLeft(Tail(s)) ELSE s

RECURSIVE TrimRight(_)
TrimRight(s) ==
    IF s = <<>> THEN s
    ELSE IF IsSpace(s[Len(s)]) THEN TrimRight(SubSeq(s, 1, Len(s) - 1)) ELSE s

\* strings.TrimSpace
TrimSpace(s) == TrimRight(TrimLeft(s))

\* strings.HasPrefix
HasPrefix(s, p) ==
    /\ Len(s) >= Len(p)
    /\ \A i \in 1..Len(p) : s[i] = p[i]

\* strings.HasSuffix
HasSuffix(s, p) ==
    /\ Len(s) >= Len(p)
    /\ \A i \in 1..Len(p) : s[Len(s) - Len(p) + i] = p[i]

\* strings.Contains
Contains(s, p) ==
    \E k \in 0..(Len(s) - Len(p)) : \A i \in 1..Len(p) : s[k + i] = p[i]

\* strings.Repeat(string(char), n)
Repeat(c, n) == [i \in 1..n |-> c]

\* The pieces of a string from the pieces of its two halves: the last piece
\* of the left half and the first of the right half are one piece
SplitMerge(left, right) ==
    SubSeq(left, 1, Len(left) - 1) \o <<left[Len(left)] \o right[1]>> \o Tail(right)

\* strings.Split(s, sep) for a one-character separator: the pieces between
\* the separators, computed half by half to keep the evaluation shallow
RECURSIVE Split(_, _)
Split(s, sep) ==
    IF \A i \in 1..Len(s) : s[i] # sep THEN <<s>>
    ELSE IF Len(s) = 1 THEN <<(<<>>), (<<>>)>>
    ELSE SplitMerge(Split(SubSeq(s, 1, Len(s) \div 2), sep),
                    Split(SubSeq(s, Len(s) \div 2 + 1, Len(s)), sep))

\* strings.Join(parts, sep) for a one-character separator, computed half by
\* half to keep the evaluation shallow
RECURSIVE Join(_, _)
Join(parts, sep) ==
    IF parts = <<>> THEN <<>>
    ELSE IF Len(parts) = 1 THEN parts[1]
    ELSE Join(SubSeq(parts, 1, Len(parts) \div 2), sep) \o <<sep>>
             \o Join(SubSeq(parts, Len(parts) \div 2 + 1, Len(parts)), sep)

\* strings.ReplaceAll(s, "\r", "\n")
ReplaceCR(s) == [i \in 1..Len(s) |-> IF s[i] = CR THEN LF ELSE s[i]]

\* bufio.ScanLines: dropCR
DropCR(s) ==
    IF s # <<>> /\ s[Len(s)] = CR THEN SubSeq(s, 1, Len(s) - 1) ELSE s

\* bufio.Scanner with the default split function: the tokens are the pieces
\* between line feeds, each without one trailing carriage return; what
\* remains after the last line feed is a token only when it is not empty.
ScanLines(text) ==
    LET parts == Split(text, LF)
        n == Len(parts)
        kept == IF parts[n] = <<>> THEN SubSeq(parts, 1, n - 1) ELSE parts
    IN [i \in 1..Len(kept) |-> DropCR(kept[i])]

\* filepath.IsAbs on a Unix host
IsAbs(path) == HasPrefix(path, <<SLASH>>)

\* ------------------------------------------------------------------------
\* Errors
\* ------------------------------------------------------------------------
Nil == [kind |-> "nil"]
\* the nil *SiloDocument a failed call returns
NilDoc == [nil |-> TRUE]
Err(kind, line, path, cause) ==
    [kind |-> kind, line |-> line, path |-> path, cause |-> cause]

\* ------------------------------------------------------------------------
\* package silo
\* ------------------------------------------------------------------------
isValidDelimiterChar(r) == r # SP /\ r # TAB /\ r # LF /\ r # CR

isBlankLine(line) == TrimSpace(line) = <<>>

\* The run the scan loop of detectDelimiter consumes: the index of the first
\* character that stops it (Len + 1 when the line runs out).
RECURSIVE DelimScan(_, _)
DelimScan(line, idx) ==
    IF idx > Len(line) THEN idx
    ELSE IF line[idx] = RuneError THEN 0
    ELSE IF ~isValidDelimiterChar(line[idx]) THEN idx
    ELSE DelimScan(line, idx + 1)

detectDelimiter(rawLine) ==
    LET line == TrimSpace(rawLine)
        stop == DelimScan(line, 1)
        fail(k) == [delim |-> <<>>, path |-> <<>>, err |-> k]
    IN IF line = <<>> THEN fail("EmptyLine")
       ELSE IF stop = 0 THEN fail("InvalidUTF8")
       ELSE IF stop = 1 THEN fail("InvalidDeclaration")
       ELSE IF stop > Len(line) \/ line[stop] # SP THEN fail("InvalidDeclaration")
       ELSE LET path == TrimSpace(SubSeq(line, stop + 1, Len(line)))
            IN IF path = <<>> THEN fail("EmptyPath")
               ELSE [delim |-> SubSeq(line, 1, stop - 1), path |-> path, err |-> "nil"]

\* Mutant of validatePath: the ".." test only rejects ".." as a whole
\* path segment
validatePath_SegmentAware(path) ==
    IF path = <<>> \/ path = <<DOT>> THEN "InvalidPath"
    ELSE IF IsAbs(path) THEN "AbsolutePathNotAllowed"
    ELSE IF \E s \in 1..Len(Split(path, SLASH)) : Split(path, SLASH)[s] = <<DOT, DOT>>
         THEN "ParentReferenceNotAllowed"
    ELSE IF \E i \in 1..Len(path) : path[i] = NUL THEN "NullByteInPath"
    ELSE "nil"


validatePath(path) ==
    IF path = <<>> \/ path = <<DOT>> THEN "InvalidPath"
    ELSE IF IsAbs(path) THEN "AbsolutePathNotAllowed"
    ELSE IF Contains(path, <<DOT, DOT>>) THEN "ParentReferenceNotAllowed"
    ELSE IF \E i \in 1..Len(path) : path[i] = NUL THEN "NullByteInPath"
    ELSE "nil"

SiloFile(path, content) == [Path |-> path, Content |-> content]
SiloDocument(files, delimiter) == [Files |-> files, Delimiter |-> delimiter]

\* The lines ParseSiloFile works on
ReadLines(text) ==
    LET scanned == ScanLines(text)
    IN [i \in 1..Len(scanned) |-> ReplaceCR(scanned[i])]

\* Closing a record: the buffered lines joined, newline-terminated when the
\* join is not empty.
CloseContent(contentLines) ==
    LET joined == Join(contentLines, LF)
    IN IF joined # <<>> THEN joined \o <<LF>> ELSE joined

\* Mutant of SkipBlank: only empty lines are skipped, not lines of whitespace
RECURSIVE SkipBlank_EmptyOnly(_, _)
SkipBlank_EmptyOnly(lines, idx) ==
    IF idx <= Len(lines) /\ lines[idx] = <<>> THEN SkipBlank_EmptyOnly(lines, idx + 1) ELSE idx


RECURSIVE SkipBlank(_, _)
SkipBlank(lines, idx) ==
    IF idx <= Len(lines) /\ isBlankLine(lines[idx]) THEN SkipBlank(lines, idx + 1) ELSE idx

\* Mutant of ParseLoop: the pathsSeen test is missing
RECURSIVE ParseLoop_NoDuplicateCheck(_, _, _, _, _, _, _)
ParseLoop_NoDuplicateCheck(lines, delim, idx, files, pathsSeen, currentPath, contentLines) ==
    IF idx > Len(lines)
    THEN [doc |-> SiloDocument(Append(files, SiloFile(currentPath, CloseContent(contentLines))),
                               delim),
          err |-> Nil]
    ELSE LET line == lines[idx] IN
         IF HasPrefix(line, delim \o <<SP>>)
         THEN LET path == TrimSpace(SubSeq(line, Len(delim) + 2, Len(line)))
                  v == validatePath(path)
              IN IF v # "nil"
                 THEN [doc |-> NilDoc, err |-> Err("InvalidPath", idx, path, v)]
                 ELSE ParseLoop_NoDuplicateCheck(lines, delim, idx + 1,
                                Append(files, SiloFile(currentPath, CloseContent(contentLines))),
                                pathsSeen \cup {path}, path, <<>>)
         ELSE ParseLoop_NoDuplicateCheck(lines, delim, idx + 1, files, pathsSeen, currentPath,
                        Append(contentLines, line))

\* Mutant of ParseLoop: every later line is run through detectDelimiter
\* again, so any well-formed declaration starts a record
RECURSIVE ParseLoop_Redetect(_, _, _, _, _, _, _)
ParseLoop_Redetect(lines, delim, idx, files, pathsSeen, currentPath, contentLines) ==
    IF idx > Len(lines)
    THEN [doc |-> SiloDocument(Append(files, SiloFile(currentPath, CloseContent(contentLines))),
                               delim),
          err |-> Nil]
    ELSE LET line == lines[idx]
             det == detectDelimiter(line)
         IN
         IF det.err = "nil"
         THEN LET path == det.path
                  v == validatePath(path)
              IN IF v # "nil"
                 THEN [doc |-> NilDoc, err |-> Err("InvalidPath", idx, path, v)]
                 ELSE IF path \in pathsSeen
                 THEN [doc |-> NilDoc, err |-> Err("DuplicatePath", 0, path, "nil")]
                 ELSE ParseLoop_Redetect(lines, delim, idx + 1,
                                Append(files, SiloFile(currentPath, CloseContent(contentLines))),
                                pathsSeen \cup {path}, path, <<>>)
         ELSE ParseLoop_Redetect(lines, delim, idx + 1, files, pathsSeen, currentPath,
                        Append(contentLines, line))

\* Mutant of ParseLoop: the path of a later declaration is not validated
RECURSIVE ParseLoop_NoValidate(_, _, _, _, _, _, _)
ParseLoop_NoValidate(lines, delim, idx, files, pathsSeen, currentPath, contentLines) ==
    IF idx > Len(lines)
    THEN [doc |-> SiloDocument(Append(files, SiloFile(currentPath, CloseContent(contentLines))),
                               delim),
          err |-> Nil]
    ELSE LET line == lines[idx] IN
         IF HasPrefix(line, delim \o <<SP>>)
         THEN LET path == TrimSpace(SubSeq(line, Len(delim) + 2, Len(line)))
              IN IF path \in pathsSeen
                 THEN [doc |-> NilDoc, err |-> Err("DuplicatePath", 0, path, "nil")]
                 ELSE ParseLoop_NoValidate(lines, delim, idx + 1,
                                Append(files, SiloFile(currentPath, CloseContent(contentLines))),
                                pathsSeen \cup {path}, path, <<>>)
         ELSE ParseLoop_NoValidate(lines, delim, idx + 1, files, pathsSeen, currentPath,
                        Append(contentLines, line))


RECURSIVE ParseLoop(_, _, _, _, _, _, _)
ParseLoop(lines, delim, idx, files, pathsSeen, currentPath, contentLines) ==
    IF idx > Len(lines)
    THEN [doc |-> SiloDocument(Append(files, SiloFile(currentPath, CloseContent(contentLines))),
                               delim),
          err |-> Nil]
    ELSE LET line == lines[idx] IN
         IF HasPrefix(line, delim \o <<SP>>)
         THEN LET path == TrimSpace(SubSeq(line, Len(delim) + 2, Len(line)))
                  v == validatePath(path)
              IN IF v # "nil"
                 THEN [doc |-> NilDoc, err |-> Err("InvalidPath", idx, path, v)]
                 ELSE IF path \in pathsSeen
                 THEN [doc |-> NilDoc, err |-> Err("DuplicatePath", 0, path, "nil")]
                 ELSE ParseLoop(lines, delim, idx + 1,
                                Append(files, SiloFile(currentPath, CloseContent(contentLines))),
                                pathsSeen \cup {path}, path, <<>>)
         ELSE ParseLoop(lines, delim, idx + 1, files, pathsSeen, currentPath,
                        Append(contentLines, line))

\* Mutant of ParseSiloFile: the line number of a rejected first path is
\* taken one past the line index already advanced
ParseSiloFile_LineAfterIncrement(text) ==
    LET lines == ReadLines(text)
        first == SkipBlank(lines, 1)
    IN IF first > Len(lines)
       THEN [doc |-> SiloDocument(<<>>, <<>>), err |-> Nil]
       ELSE LET det == detectDelimiter(lines[first]) IN
            IF det.err # "nil"
            THEN [doc |-> NilDoc, err |-> Err("DelimiterDetectionFailed", first, <<>>, det.err)]
            ELSE LET v == validatePath(det.path) IN
                 IF v # "nil"
                 THEN [doc |-> NilDoc, err |-> Err("InvalidPath", first + 1, det.path, v)]
                 ELSE ParseLoop(lines, det.delim, first + 1, <<>>, {det.path}, det.path, <<>>)


ParseSiloFile(text) ==
    LET lines == ReadLines(text)
        first == SkipBlank(lines, 1)
    IN IF first > Len(lines)
       THEN [doc |-> SiloDocument(<<>>, <<>>), err |-> Nil]
       ELSE LET det == detectDelimiter(lines[first]) IN
            IF det.err # "nil"
            THEN [doc |-> NilDoc, err |-> Err("DelimiterDetectionFailed", first, <<>>, det.err)]
            ELSE LET v == validatePath(det.path) IN
                 IF v # "nil"
                 THEN [doc |-> NilDoc, err |-> Err("InvalidPath", first, det.path, v)]
                 ELSE ParseLoop(lines, det.delim, first + 1, <<>>, {det.path}, det.path, <<>>)

\* The 200 candidates findSafeDelimiter starts from
baseChars == <<GT, EQ, STAR, DASH>>

\* The order in which findSafeDelimiter tries the characters at the
\* shortest surviving length
preferences == <<GT, EQ, STAR, DASH>>

\* Mutant of Candidates: the length loop stops one short (length < 50)
Candidates_Below50 ==
    {Repeat(baseChars[c], length) : c \in 1..Len(baseChars), length \in 1..(MaxDelimiterLength - 1)}

Candidates ==
    {Repeat(baseChars[c], length) : c \in 1..Len(baseChars), length \in 1..MaxDelimiterLength}

\* The content lines a collision scan looks at
ContentLines(file) == Split(file.Content, LF)

\* Mutant of Collides: the space after the delimiter is not required
Collides_NoSpace(line, delimiter) == HasPrefix(line, delimiter)

\* One collision test of findSafeDelimiter and of WriteTo
Collides(line, delimiter) == HasPrefix(line, delimiter \o <<SP>>)

\* Every content line of the document, in the order the loops over the
\* records and over each record's lines visit them
RECURSIVE AllContentLines(_)
AllContentLines(files) ==
    IF files = <<>> THEN <<>>
    ELSE ContentLines(Head(files)) \o AllContentLines(Tail(files))

\* Mutant of Survivors: only the first record is scanned
Survivors_FirstRecordOnly(doc) ==
    LET lines == IF doc.Files = <<>> THEN <<>> ELSE ContentLines(doc.Files[1])
    IN {delimiter \in Candidates :
           ~ \E l \in 1..Len(lines) : lines[l] # <<>> /\ Collides(lines[l], delimiter)}

\* The candidates left after the elimination loop
Survivors(doc) ==
    LET lines == AllContentLines(doc.Files)
    IN {delimiter \in Candidates :
           ~ \E l \in 1..Len(lines) : lines[l] # <<>> /\ Collides(lines[l], delimiter)}

Min(S) == CHOOSE m \in S : \A o \in S : m <= o
Max(S) == CHOOSE m \in S : \A o \in S : m >= o

\* Mutant of findSafeDelimiter: the preference loop runs backwards
findSafeDelimiter_LastPreferred(doc) ==
    LET candidates == Survivors(doc) IN
    IF candidates = {}
    THEN {[delimiter |-> <<>>, err |-> Err("NoSafeDelimiter", 0, <<>>, "nil")]}
    ELSE LET shortestLength == Min({Len(c) : c \in candidates})
             preferred == {p \in 1..Len(preferences) :
                              Repeat(preferences[p], shortestLength) \in candidates}
         IN {[delimiter |-> Repeat(preferences[Max(preferred)], shortestLength), err |-> Nil]}

\* findSafeDelimiter: the set of results it can return.  The candidates live
\* in a Go map, whose iteration order is not fixed: the last loop returns
\* whichever candidate of the shortest length the iteration meets first.
findSafeDelimiter(doc) ==
    LET candidates == Survivors(doc) IN
    IF candidates = {}
    THEN {[delimiter |-> <<>>, err |-> Err("NoSafeDelimiter", 0, <<>>, "nil")]}
    ELSE LET shortestLength == Min({Len(c) : c \in candidates})
             preferred == {p \in 1..Len(preferences) :
                              Repeat(preferences[p], shortestLength) \in candidates}
         IN IF preferred # {}
            THEN {[delimiter |-> Repeat(preferences[Min(preferred)], shortestLength), err |-> Nil]}
            ELSE {[delimiter |-> c, err |-> Nil] : c \in {k \in candidates : Len(k) = shortestLength}}

\* Mutant of FirstCollision: the last colliding record is reported
FirstCollision_Last(doc) ==
    LET hit == {f \in 1..Len(doc.Files) :
                   LET lines == ContentLines(doc.Files[f])
                   IN \E l \in 1..Len(lines) :
                          lines[l] # <<>> /\ Collides(lines[l], doc.Delimiter)}
    IN IF hit = {} THEN 0 ELSE Max(hit)

\* The first record, in document order, with a content line that collides
\* with the document's delimiter (0 when there is none)
FirstCollision(doc) ==
    LET hit == {f \in 1..Len(doc.Files) :
                   LET lines == ContentLines(doc.Files[f])
                   IN \E l \in 1..Len(lines) :
                          lines[l] # <<>> /\ Collides(lines[l], doc.Delimiter)}
    IN IF hit = {} THEN 0 ELSE Min(hit)

\* Mutant of EmitFile: a newline follows every content, also one that ends
\* with a newline already
EmitFile_AlwaysNewline(delimiter, file) ==
    delimiter \o <<SP>> \o file.Path \o <<LF>> \o
        (IF file.Content # <<>> THEN file.Content \o <<LF>> ELSE file.Content)


\* What WriteTo emits for one record
EmitFile(delimiter, file) ==
    delimiter \o <<SP>> \o file.Path \o <<LF>> \o
        (IF ~HasSuffix(file.Content, <<LF>>) /\ file.Content # <<>>
         THEN file.Content \o <<LF>> ELSE file.Content)

RECURSIVE EmitAll(_, _)
EmitAll(delimiter, files) ==
    IF files = <<>> THEN <<>>
    ELSE EmitFile(delimiter, Head(files)) \o EmitAll(delimiter, Tail(files))

\* Mutant of WriteTo: the collision is only noticed when the emission loop
\* reaches the colliding record, after the records before it were written
WriteTo_ChecksWhileEmitting(doc) ==
    IF doc.Delimiter = <<>>
    THEN {IF r.err # Nil
          THEN [doc |-> doc, out |-> <<>>, err |-> r.err]
          ELSE [doc |-> [doc EXCEPT !.Delimiter = r.delimiter],
                out |-> EmitAll(r.delimiter, doc.Files), err |-> Nil]
          : r \in findSafeDelimiter(doc)}
    ELSE LET f == FirstCollision(doc) IN
         IF f # 0
         THEN {[doc |-> doc, out |-> EmitAll(doc.Delimiter, SubSeq(doc.Files, 1, f - 1)),
                err |-> [kind |-> "DelimiterCollision", delimiter |-> doc.Delimiter,
                         path |-> doc.Files[f].Path, suggestion |-> r.delimiter,
                         cause |-> r.err.kind]]
               : r \in findSafeDelimiter(doc)}
         ELSE {[doc |-> doc, out |-> EmitAll(doc.Delimiter, doc.Files), err |-> Nil]}


\* Mutant of WriteTo: the selected delimiter is used for the text but not
\* stored in the Document
WriteTo_DelimiterNotAdopted(doc) ==
    IF doc.Delimiter = <<>>
    THEN {IF r.err # Nil
          THEN [doc |-> doc, out |-> <<>>, err |-> r.err]
          ELSE [doc |-> doc, out |-> EmitAll(r.delimiter, doc.Files), err |-> Nil]
          : r \in findSafeDelimiter(doc)}
    ELSE LET f == FirstCollision(doc) IN
         IF f # 0
         THEN {[doc |-> doc, out |-> <<>>,
                err |-> [kind |-> "DelimiterCollision", delimiter |-> doc.Delimiter,
                         path |-> doc.Files[f].Path, suggestion |-> r.delimiter,
                         cause |-> r.err.kind]]
               : r \in findSafeDelimiter(doc)}
         ELSE {[doc |-> doc, out |-> EmitAll(doc.Delimiter, doc.Files), err |-> Nil]}

\* WriteTo: the set of outcomes [doc, out, err]; doc is the receiver after
\* the call, out what reached the writer.
WriteTo(doc) ==
    IF doc.Delimiter = <<>>
    THEN {IF r.err # Nil
          THEN [doc |-> doc, out |-> <<>>, err |-> r.err]
          ELSE [doc |-> [doc EXCEPT !.Delimiter = r.delimiter],
                out |-> EmitAll(r.delimiter, doc.Files), err |-> Nil]
          : r \in findSafeDelimiter(doc)}
    ELSE LET f == FirstCollision(doc) IN
         IF f # 0
         THEN {[doc |-> doc, out |-> <<>>,
                err |-> [kind |-> "DelimiterCollision", delimiter |-> doc.Delimiter,
                         path |-> doc.Files[f].Path, suggestion |-> r.delimiter,
                         cause |-> r.err.kind]]
               : r \in findSafeDelimiter(doc)}
         ELSE {[doc |-> doc, out |-> EmitAll(doc.Delimiter, doc.Files), err |-> Nil]}

\* filepath.ToSlash on a Unix host
ToSlash(path) == path

\* The string order sort.Slice is given (doc.Files[i].Path < doc.Files[j].Path)
Less(s, t) ==
    \E k \in 1..Len(t) :
        /\ \A i \in 1..(k - 1) : i <= Len(s) /\ s[i] = t[i]
        /\ k > Len(s) \/ s[k] < t[k]

\* sort.Slice by Path: the orders it can leave the records in (it is not
\* stable, so records with equal paths may end in either order)
SortedByPath(files) ==
    {sorted \in {[i \in 1..Len(files) |-> files[perm[i]]] : perm \in Permutations(1..Len(files))} :
        \A i, j \in 1..Len(files) : i < j => ~Less(sorted[j].Path, sorted[i].Path)}

\* os.Stat on the host: a regular file, a directory, or nothing
IsFile(fsys, path) == path \in DOMAIN fsys
IsDirectory(fsys, path) ==
    \/ path = <<DOT>>
    \/ \E q \in DOMAIN fsys : HasPrefix(q, path \o <<SLASH>>)

\* ReadFiles: the set of results [doc, err] it can return
RECURSIVE ReadFilesLoop(_, _, _)
ReadFilesLoop(fsys, filePaths, files) ==
    IF filePaths = <<>>
    THEN {[doc |-> SiloDocument(sorted, <<GT>>), err |-> Nil] : sorted \in SortedByPath(files)}
    ELSE LET filePath == Head(filePaths) IN
         IF ~IsFile(fsys, filePath) /\ ~IsDirectory(fsys, filePath)
         THEN {[doc |-> NilDoc, err |-> Err("StatFailed", 0, filePath, "nil")]}
         ELSE IF IsDirectory(fsys, filePath)
         THEN {[doc |-> NilDoc, err |-> Err("IsDirectory", 0, filePath, "nil")]}
         ELSE ReadFilesLoop(fsys, Tail(filePaths),
                            Append(files, SiloFile(ToSlash(filePath), fsys[filePath])))

ReadFiles(fsys, filePaths) == ReadFilesLoop(fsys, filePaths, <<>>)

\* filepath.Rel(rootPath, path) for a path the walk of rootPath reaches
Rel(rootPath, path) ==
    IF path = rootPath THEN <<DOT>>
    ELSE IF rootPath = <<DOT>> THEN path
    ELSE SubSeq(path, Len(rootPath) + 2, Len(path))

RECURSIVE SetToSeq(_)
SetToSeq(S) ==
    IF S = {} THEN <<>> ELSE LET e == CHOOSE e \in S : TRUE IN <<e>> \o SetToSeq(S \ {e})

\* ReadDirectoryTree: the set of results [doc, err] it can return.  The
\* walk visits the root itself when the root is a regular file.
ReadDirectoryTree(fsys, rootPath) ==
    IF ~IsFile(fsys, rootPath) /\ ~IsDirectory(fsys, rootPath)
    THEN {[doc |-> NilDoc, err |-> Err("WalkFailed", 0, rootPath, "nil")]}
    ELSE LET visited == IF IsFile(fsys, rootPath) THEN {rootPath}
                        ELSE {q \in DOMAIN fsys :
                                 rootPath = <<DOT>> \/ HasPrefix(q, rootPath \o <<SLASH>>)}
             files == SetToSeq({SiloFile(ToSlash(Rel(rootPath, q)), fsys[q]) : q \in visited})
         IN {[doc |-> SiloDocument(sorted, <<GT>>), err |-> Nil] : sorted \in SortedByPath(files)}

\* filepath.Clean on a Unix host: the stack of path elements kept
RECURSIVE CleanStack(_, _, _)
CleanStack(segs, rooted, stack) ==
    IF segs = <<>> THEN stack
    ELSE LET s == Head(segs) IN
         IF s = <<>> \/ s = <<DOT>> THEN CleanStack(Tail(segs), rooted, stack)
         ELSE IF s = <<DOT, DOT>>
         THEN IF stack # <<>> /\ stack[Len(stack)] # <<DOT, DOT>>
              THEN CleanStack(Tail(segs), rooted, SubSeq(stack, 1, Len(stack) - 1))
              ELSE IF rooted THEN CleanStack(Tail(segs), rooted, stack)
              ELSE CleanStack(Tail(segs), rooted, Append(stack, s))
         ELSE CleanStack(Tail(segs), rooted, Append(stack, s))

\* filepath.Clean: the result from the elements kept
CleanJoined(rooted, joined) ==
    IF rooted THEN <<SLASH>> \o joined
    ELSE IF joined = <<>> THEN <<DOT>> ELSE joined

\* filepath.Clean
Clean(path) ==
    IF path = <<>> THEN <<DOT>>
    ELSE CleanJoined(path[1] = SLASH,
                     Join(CleanStack(Split(path, SLASH), path[1] = SLASH, <<>>), SLASH))

\* filepath.Join(a, b)
PathJoin(a, b) ==
    IF a = <<>> /\ b = <<>> THEN <<>>
    ELSE IF a = <<>> THEN Clean(b)
    ELSE IF b = <<>> THEN Clean(a)
    ELSE Clean(a \o <<SLASH>> \o b)

\* filepath.FromSlash on a Unix host
FromSlash(path) == path

\* filepath.Dir
Dir(path) ==
    Clean(SubSeq(path, 1, Max({i \in 1..Len(path) : path[i] = SLASH} \cup {0})))

\* The directories every host has: ".", "/" and the parents of the working
\* directory ("..", "../..", ...)
AlwaysDirectory(path) ==
    \/ path = <<DOT>>
    \/ path = <<SLASH>>
    \/ LET segs == Split(path, SLASH) IN \A s \in 1..Len(segs) : segs[s] = <<DOT, DOT>>

\* A cleaned path and the cleaned paths above it
PathAndParents(path) ==
    {path} \cup {SubSeq(path, 1, i - 1) : i \in {k \in 2..Len(path) : path[k] = SLASH}}

\* os.MkdirAll(dir, 0755): fails when dir or a path above it is a regular
\* file, and otherwise makes every directory of the chain that is missing
MkdirAll(fsys, made, dir) ==
    IF \E p \in PathAndParents(dir) : p \in DOMAIN fsys
    THEN [dirs |-> made, err |-> "MkdirFailed"]
    ELSE [dirs |-> made \cup {p \in PathAndParents(dir) : ~AlwaysDirectory(p)}, err |-> "nil"]

\* os.WriteFile(fullPath, content, 0644): fails on a directory, and
\* otherwise creates the file or replaces its content
WriteFile(fsys, made, fullPath, content) ==
    IF AlwaysDirectory(fullPath) \/ fullPath \in made
    THEN [fs |-> fsys, err |-> "WriteFailed"]
    ELSE [fs |-> [p \in DOMAIN fsys \cup {fullPath} |->
                     IF p = fullPath THEN content ELSE fsys[p]],
          err |-> "nil"]

\* WriteToDirectory: the host after the call and the error it returns.
\* The loop body is cut at each call whose result decides how it goes on.
RECURSIVE WriteToDirectoryLoop(_, _, _, _)

\* after os.WriteFile returned w
AfterWriteFile(files, rootPath, fsys, made, fullPath, w) ==
    IF w.err # "nil"
    THEN [fs |-> fsys, dirs |-> made, err |-> Err("WriteFailed", 0, fullPath, "nil")]
    ELSE WriteToDirectoryLoop(Tail(files), rootPath, w.fs, made)

\* after os.MkdirAll(dir) returned m
AfterMkdirAll(files, rootPath, fsys, made, fullPath, dir, m) ==
    IF m.err # "nil"
    THEN [fs |-> fsys, dirs |-> made, err |-> Err("MkdirFailed", 0, dir, "nil")]
    ELSE AfterWriteFile(files, rootPath, fsys, m.dirs, fullPath,
                        WriteFile(fsys, m.dirs, fullPath, Head(files).Content))

\* from dir := filepath.Dir(fullPath) on
WriteRecord(files, rootPath, fsys, made, fullPath, dir) ==
    AfterMkdirAll(files, rootPath, fsys, made, fullPath, dir, MkdirAll(fsys, made, dir))

\* from fullPath := filepath.Join(...) on
WriteRecordAt(files, rootPath, fsys, made, fullPath) ==
    WriteRecord(files, rootPath, fsys, made, fullPath, Dir(fullPath))

WriteToDirectoryLoop(files, rootPath, fsys, made) ==
    IF files = <<>> THEN [fs |-> fsys, dirs |-> made, err |-> Nil]
    ELSE WriteRecordAt(files, rootPath, fsys, made,
                       PathJoin(rootPath, FromSlash(Head(files).Path)))

WriteToDirectory(doc, rootPath, fsys, made) ==
    WriteToDirectoryLoop(doc.Files, rootPath, fsys, made)

\* unpackCmd after WriteToDirectory returned w
AfterWriteToDirectory(document, w) ==
    [doc |-> document, fs |-> w.fs, dirs |-> w.dirs, err |-> w.err,
     exit |-> IF w.err # Nil THEN 1 ELSE 0]

\* unpackCmd after ParseSiloFile returned p
AfterParse(p, outputDir, fsys, made) ==
    IF p.err # Nil
    THEN [doc |-> p.doc, fs |-> fsys, dirs |-> made, err |-> p.err, exit |-> 1]
    ELSE AfterWriteToDirectory(p.doc, WriteToDirectory(p.doc, outputDir, fsys, made))

\* unpackCmd on a silo file holding `text`: the document parsed, the host
\* after the command, its error and its exit code
unpackCmd(text, outputDir, fsys, made) ==
    AfterParse(ParseSiloFile(text), outputDir, fsys, made)


\* ------------------------------------------------------------------------
\* SecureGlobExpander
\* ------------------------------------------------------------------------
PERCENT == 37
PLUS == 43
COLON == 58
BACKSLASH == 92

\* url.QueryUnescape: ishex and unhex
IsHex(c) == c \in 48..57 \/ c \in 97..102 \/ c \in 65..70
UnHex(c) ==
    IF c \in 48..57 THEN c - 48
    ELSE IF c \in 97..102 THEN c - 97 + 10
    ELSE c - 65 + 10

RECURSIVE UnescapeFrom(_, _)
UnescapeFrom(s, i) ==
    IF i > Len(s) THEN <<>>
    ELSE IF s[i] = PERCENT
    THEN <<16 * UnHex(s[i + 1]) + UnHex(s[i + 2])>> \o UnescapeFrom(s, i + 3)
    ELSE IF s[i] = PLUS THEN <<SP>> \o UnescapeFrom(s, i + 1)
    ELSE <<s[i]>> \o UnescapeFrom(s, i + 1)

\* url.QueryUnescape: an error when a "%" is not followed by two hex digits,
\* and otherwise the string with every escape replaced by its byte and every
\* "+" by a space
QueryUnescape(s) ==
    IF \E i \in 1..Len(s) :
           s[i] = PERCENT /\ ~(i + 2 <= Len(s) /\ IsHex(s[i + 1]) /\ IsHex(s[i + 2]))
    THEN [value |-> <<>>, err |-> "EscapeError"]
    ELSE [value |-> UnescapeFrom(s, 1), err |-> "nil"]

SecureGlobExpander(allowAbsolute, workingDir) ==
    [AllowAbsolute |-> allowAbsolute, WorkingDir |-> workingDir]

\* The checks of ValidatePattern on the pattern itself
PatternChecks(sge, pattern) ==
    IF IsAbs(pattern) /\ ~sge.AllowAbsolute THEN "AbsolutePathNotAllowed"
    ELSE IF Contains(pattern, <<DOT, DOT>>) THEN "ParentReferenceNotAllowed"
    ELSE IF HasPrefix(pattern, <<SLASH>>) /\ ~sge.AllowAbsolute THEN "AbsolutePathNotAllowed"
    ELSE IF /\ Len(pattern) >= 2
            /\ pattern[2] = COLON
            /\ (pattern[1] \in 65..90 \/ pattern[1] \in 97..122)
         THEN "DriveLetterNotAllowed"
    ELSE IF \/ Contains(pattern, <<BACKSLASH, DOT, DOT, BACKSLASH>>)
            \/ Contains(pattern, <<SLASH, DOT, DOT, SLASH>>)
         THEN "PathTraversal"
    ELSE "nil"

\* Mutant of ValidatePattern: the pattern is checked as it stands and never
\* decoded
ValidatePattern_NoDecoding(sge, pattern) ==
    PatternChecks(sge, pattern)


\* Mutant of ValidatePattern: the decoded pattern is checked as it stands,
\* without being decoded again
ValidatePattern_DecodeOnce(sge, pattern) ==
    LET decoded == QueryUnescape(pattern)
    IN IF /\ Contains(pattern, <<PERCENT>>)
          /\ decoded.err = "nil"
          /\ PatternChecks(sge, decoded.value) # "nil"
       THEN "EncodedForbidden"
       ELSE PatternChecks(sge, pattern)


RECURSIVE ValidatePattern(_, _)
ValidatePattern(sge, pattern) ==
    LET decoded == QueryUnescape(pattern)
    IN IF /\ Contains(pattern, <<PERCENT>>)
          /\ decoded.err = "nil"
          /\ ValidatePattern(sge, decoded.value) # "nil"
       THEN "EncodedForbidden"
       ELSE PatternChecks(sge, pattern)

\* filepath.Rel(basepath, targpath) for two absolute paths
RelTo(basepath, targpath) ==
    LET base == CleanStack(Split(basepath, SLASH), TRUE, <<>>)
        targ == CleanStack(Split(targpath, SLASH), TRUE, <<>>)
        common == Max({k \in 0..Min({Len(base), Len(targ)}) :
                          \A i \in 1..k : base[i] = targ[i]})
        up == [i \in 1..(Len(base) - common) |-> <<DOT, DOT>>]
        rel == Join(up \o SubSeq(targ, common + 1, Len(targ)), SLASH)
    IN IF rel = <<>> THEN <<DOT>> ELSE rel

\* filepath.Abs of a working directory, which is absolute already
Abs(path) == Clean(path)

ValidatePath(sge, path) ==
    LET v == ValidatePattern(sge, path) IN
    IF v # "nil" THEN v
    ELSE IF ~IsAbs(path)
    THEN LET parts == Split(ToSlash(path), SLASH)
         IN IF \E p \in 1..Len(parts) : parts[p] = <<DOT, DOT>>
            THEN "ParentReference" ELSE "nil"
    ELSE IF HasPrefix(RelTo(Abs(sge.WorkingDir), path), <<DOT, DOT>>)
    THEN "OutsideWorkingDirectory"
    ELSE "nil"

\* os.Lstat / os.Stat succeed: the path, taken from the working directory,
\* names a regular file or a directory of the host
Exists(fsys, sge, path) ==
    \E clean \in {Clean(path)}, wd \in {Abs(sge.WorkingDir)} :
        \E local \in {IF ~IsAbs(clean) THEN clean
                       ELSE IF clean = wd THEN <<DOT>>
                       ELSE IF HasPrefix(clean, wd \o <<SLASH>>)
                            THEN SubSeq(clean, Len(wd) + 2, Len(clean))
                            ELSE <<DOT, DOT>>} :
            local # <<DOT, DOT>> /\ (IsFile(fsys, local) \/ IsDirectory(fsys, local))

\* doublestar.FilepathGlob of a pattern without metacharacters: the cleaned
\* pattern when it names something, and nothing otherwise
expandEnhancedGlob(fsys, sge, pattern) ==
    [matches |-> IF Exists(fsys, sge, pattern) THEN <<Clean(pattern)>> ELSE <<>>,
     err |-> "nil"]

\* filepath.Glob of a pattern without metacharacters: the pattern when it
\* names something, and nothing otherwise
expandStandardGlob(fsys, sge, pattern) ==
    [matches |-> IF Exists(fsys, sge, pattern) THEN <<pattern>> ELSE <<>>,
     err |-> "nil"]

StandardGlob == 0
EnhancedGlob == 1
BothGlobs == 2

\* The matches of one pattern of ExpandPatterns, the literal path included
\* when nothing matched and it exists
Globbed(option, enhanced, standard) ==
    IF option = StandardGlob THEN standard
    ELSE IF option = EnhancedGlob THEN enhanced
    ELSE IF enhanced.err # "nil" THEN standard ELSE enhanced

OrLiteral(fsys, sge, pattern, globbed) ==
    IF globbed.err # "nil" THEN globbed
    ELSE IF globbed.matches = <<>> /\ Exists(fsys, sge, pattern)
         THEN [matches |-> <<pattern>>, err |-> "nil"]
         ELSE globbed

Matches(fsys, sge, pattern, option) ==
    OrLiteral(fsys, sge, pattern,
              Globbed(option, expandEnhancedGlob(fsys, sge, pattern),
                      expandStandardGlob(fsys, sge, pattern)))

\* The loop of ExpandPatterns over the matches of one pattern
RECURSIVE AddMatches(_, _, _)

\* the path a match is recorded under
NormalizedPath(match, relPath) ==
    IF IsAbs(match) /\ ~HasPrefix(relPath, <<DOT, DOT>>)
    THEN ToSlash(relPath) ELSE ToSlash(match)

\* one match, after ValidatePath returned v
AddMatch(sge, matches, allFiles, v, normalizedPath) ==
    IF v # "nil"
    THEN [paths |-> <<>>, err |-> Err("UnsafePath", 0, Head(matches), v)]
    ELSE IF \E i \in 1..Len(allFiles) : allFiles[i] = normalizedPath
    THEN AddMatches(sge, Tail(matches), allFiles)
    ELSE AddMatches(sge, Tail(matches), Append(allFiles, normalizedPath))

AddMatches(sge, matches, allFiles) ==
    IF matches = <<>> THEN [paths |-> allFiles, err |-> Nil]
    ELSE AddMatch(sge, matches, allFiles, ValidatePath(sge, Head(matches)),
                  NormalizedPath(Head(matches), RelTo(sge.WorkingDir, Head(matches))))

\* The loop of ExpandPatterns over the patterns, cut at each call whose
\* result decides how it goes on
RECURSIVE ExpandLoop(_, _, _, _, _)

\* after the matches of the pattern were added
AfterAddMatches(fsys, sge, patterns, option, added) ==
    IF added.err # Nil THEN added
    ELSE ExpandLoop(fsys, sge, Tail(patterns), option, added.paths)

\* after the glob of the pattern returned m
AfterGlob(fsys, sge, patterns, option, allFiles, m) ==
    IF m.err # "nil"
    THEN [paths |-> <<>>, err |-> Err("ExpandFailed", 0, Head(patterns), m.err)]
    ELSE AfterAddMatches(fsys, sge, patterns, option, AddMatches(sge, m.matches, allFiles))

\* after ValidatePattern returned v
AfterValidatePattern(fsys, sge, patterns, option, allFiles, v) ==
    IF v # "nil"
    THEN [paths |-> <<>>, err |-> Err("InvalidPattern", 0, Head(patterns), v)]
    ELSE AfterGlob(fsys, sge, patterns, option, allFiles,
                   Matches(fsys, sge, Head(patterns), option))

ExpandLoop(fsys, sge, patterns, option, allFiles) ==
    IF patterns = <<>> THEN [paths |-> allFiles, err |-> Nil]
    ELSE AfterValidatePattern(fsys, sge, patterns, option, allFiles,
                              ValidatePattern(sge, Head(patterns)))

ExpandPatterns(fsys, sge, patterns, option) == ExpandLoop(fsys, sge, patterns, option, <<>>)


\* ------------------------------------------------------------------------
\* package main: silo pack
\* ------------------------------------------------------------------------

\* What packCmd leaves behind: the exit code, the message on the error
\* stream ("" when it prints none), standard output, the host's files, the
\* document it built and the error of the call that failed (Nil when every
\* call succeeded)
PackResult(exit, stderr, stdout, fsys, document, failed) ==
    [exit |-> exit, stderr |-> stderr, stdout |-> stdout, fs |-> fsys, doc |-> document,
     failed |-> failed]

\* os.Create(name) succeeds: the name is not a directory
CanCreate(fsys, name) == ~IsDirectory(fsys, name)

\* The host with the named file holding the content
WithFile(fsys, name, content) ==
    [p \in DOMAIN fsys \cup {name} |-> IF p = name THEN content ELSE fsys[p]]

\* packCmd from the delimiter assignment on: the results of writing the
\* document to standard output or to the output file
packWrite(fsys, document, delimiter, outputFile) ==
    LET d == [document EXCEPT !.Delimiter = delimiter] IN
    IF outputFile = <<>>
    THEN {IF w.err # Nil
          THEN PackResult(1, "Error writing silo file", w.out, fsys, w.doc, w.err)
          ELSE PackResult(0, "", w.out, fsys, w.doc, Nil)
          : w \in WriteTo(d)}
    ELSE IF ~CanCreate(fsys, outputFile)
    THEN {PackResult(1, "Error creating output file", <<>>, fsys, d,
                     Err("CreateFailed", 0, outputFile, "nil"))}
    \* the error of WriteTo is assigned to the `err` declared by
    \* `file, err := os.Create(...)` in the else block; the test after the
    \* block reads the outer `err`, which is nil here
    ELSE {PackResult(0, "", <<>>, WithFile(fsys, outputFile, w.out), w.doc, w.err)
          : w \in WriteTo(d)}

\* packCmd, reading the input: a single directory as a tree, and anything
\* else as a list of files
packRead(fsys, paths) ==
    IF Len(paths) = 1 /\ IsDirectory(fsys, paths[1])
    THEN ReadDirectoryTree(fsys, paths[1])
    ELSE ReadFiles(fsys, paths)

\* packCmd after ExpandPatterns returned e
packExpanded(fsys, e, delimiter, outputFile) ==
    IF e.err # Nil
    THEN {PackResult(1, "Error expanding patterns", <<>>, fsys, NilDoc, e.err)}
    ELSE IF Len(e.paths) = 0
    THEN {PackResult(1, "No files matched the specified patterns", <<>>, fsys, NilDoc,
                     Err("NoFilesMatched", 0, <<>>, "nil"))}
    ELSE UNION {IF r.err # Nil
                THEN {PackResult(1, "Error reading input", <<>>, fsys, NilDoc, r.err)}
                ELSE packWrite(fsys, r.doc, delimiter, outputFile)
                : r \in packRead(fsys, e.paths)}

\* packCmd: the set of results it can end with
packCmd(fsys, workingDir, patterns, delimiter, outputFile, useEnhanced) ==
    IF Len(patterns) < 1
    THEN {PackResult(1, "Usage", <<>>, fsys, NilDoc, Err("Usage", 0, <<>>, "nil"))}
    ELSE packExpanded(fsys,
                      ExpandPatterns(fsys, SecureGlobExpander(FALSE, workingDir), patterns,
                                     IF useEnhanced THEN EnhancedGlob ELSE BothGlobs),
                      delimiter, outputFile)


\* ------------------------------------------------------------------------
\* State
\* ------------------------------------------------------------------------
VARIABLES
    fs,      \* the host's regular files: path -> content
    dirs,    \* the directories the program made on the host
    args,    \* the arguments of the command being run (NoValue without one)
    doc,     \* the SiloDocument the caller holds (NilDoc before it has one)
    origin,  \* how doc was made: "literal", "ParseSiloFile", "ReadFiles", "ReadDirectoryTree"
    input,   \* the text handed to ParseSiloFile when doc was parsed
    before,  \* doc as WriteTo received it
    out,     \* what WriteTo wrote to its writer
    err,     \* the error of the last call (Nil when it succeeded)
    parsed,  \* what ParseSiloFile returned for the written text
    ret,     \* what the last call of another function returned (NoValue before)
    pc       \* "start", "built", "failed", "written", "reparsed"

vars == <<fs, dirs, args, doc, origin, input, before, out, err, parsed, ret, pc>>

\* ------------------------------------------------------------------------
\* Bounds and sample inputs
\* ------------------------------------------------------------------------
MaxLines == 2
MaxInputLines == 3

SamplePaths == {<<Sample.a>>, <<Sample.b>>}

\* content lines: blank, "> x", ">x", ">(tab)x", ">> x", " > x", "(wheat) x"
SampleLines ==
    { <<>>,
      <<GT, SP, Sample.x>>,
      <<GT, Sample.x>>,
      <<GT, TAB, Sample.x>>,
      <<GT, GT, SP, Sample.x>>,
      <<SP, GT, SP, Sample.x>>,
      <<Sample.wheat, SP, Sample.x>> }

\* delimiters a caller sets: unset, ">", ">>", two emoji
SampleDelimiters ==
    { <<>>, <<GT>>, <<GT, GT>>, <<Sample.wheat>>, <<Sample.turtle>> }

SeqsUpTo(S, n) == UNION {[1..k -> S] : k \in 0..n}

\* A text made of lines, each followed by a line feed
RECURSIVE Terminated(_)
Terminated(lines) ==
    IF Len(lines) = 0 THEN <<>>
    ELSE IF Len(lines) = 1 THEN lines[1] \o <<LF>>
    ELSE LET half == Len(lines) \div 2
         IN Terminated(SubSeq(lines, 1, half)) \o Terminated(SubSeq(lines, half + 1, Len(lines)))

\* The lines owned by file f, each followed by a line feed
RECURSIVE Owned(_, _, _)
Owned(lines, owner, f) ==
    IF lines = <<>> THEN <<>>
    ELSE (IF Head(owner) = f THEN Head(lines) \o <<LF>> ELSE <<>>)
             \o Owned(Tail(lines), Tail(owner), f)

\* Without its final line feed, when `cut` says so
Unterminated(content, cut) ==
    IF cut /\ content # <<>> THEN SubSeq(content, 1, Len(content) - 1) ELSE content

\* A document holds at most as many records as there are sample paths
MaxFiles == Cardinality(SamplePaths)

\* How `lines` can be dealt to `n` records in order: the record of each line
Owners(lines, n) ==
    {o \in [1..Len(lines) -> 1..n] : \A i, j \in 1..Len(lines) : i < j => o[i] <= o[j]}

\* The records over `paths` holding `lines` as `owner` says, the last
\* record's content without its final line feed when `cut` says so
SmallFiles(paths, lines, owner, cut) ==
    [f \in 1..Len(paths) |->
        SiloFile(paths[f], Unterminated(Owned(lines, owner, f), cut /\ f = Len(paths)))]

\* The content of TestFindSafeDelimiterNoSolution: one colliding line for
\* each candidate from length `from` on.
RECURSIVE CollidingLines(_, _)
CollidingLines(c, from) ==
    IF from > MaxDelimiterLength THEN <<>>
    ELSE Repeat(baseChars[c], from) \o <<SP, Sample.x, LF>> \o CollidingLines(c, from + 1)

ExhaustingContent ==
    CollidingLines(1, 1) \o CollidingLines(2, 1) \o CollidingLines(3, 1) \o CollidingLines(4, 1)

LargeFiles ==
    { <<SiloFile(<<Sample.a>>, ExhaustingContent)>>,
      <<SiloFile(<<Sample.a>>, <<Sample.x, LF>>), SiloFile(<<Sample.b>>, ExhaustingContent)>> }

\* input lines for the parser: blank, "x", "> a", "> b", "> a " (trailing
\* space), ">> a", " > b", "> ..", ">a"
SampleInputLines ==
    { <<>>,
      <<Sample.x>>,
      <<GT, SP, Sample.a>>,
      <<GT, SP, Sample.b>>,
      <<GT, SP, Sample.a, SP>>,
      <<GT, GT, SP, Sample.a>>,
      <<SP, GT, SP, Sample.b>>,
      <<GT, SP, DOT, DOT>>,
      <<GT, Sample.a>> }

SampleTexts == {Terminated(lines) : lines \in SeqsUpTo(SampleInputLines, MaxInputLines)}

\* ------------------------------------------------------------------------
\* Actions
\* ------------------------------------------------------------------------
NoFiles == <<>>
NoValue == [none |-> TRUE]

Init ==
    /\ fs = NoFiles
    /\ doc = NilDoc
    /\ origin = "none"
    /\ input = <<>>
    /\ before = NilDoc
    /\ out = <<>>
    /\ err = Nil
    /\ parsed = [doc |-> NilDoc, err |-> Nil]
    /\ ret = NoValue
    /\ dirs = {}
    /\ args = NoValue
    /\ pc = "start"

\* A caller builds the document itself: &SiloDocument{Files: ..., Delimiter: ...}
NewDocument(files, delimiter) ==
    /\ doc' = SiloDocument(files, delimiter)
    /\ origin' = "literal"
    /\ pc' = "built"
    /\ UNCHANGED <<fs, dirs, args, ret, input, before, out, err, parsed>>

NewSmallDocument ==
    /\ pc = "start"
    /\ \E paths \in SeqsUpTo(SamplePaths, MaxFiles), lines \in SeqsUpTo(SampleLines, MaxLines) :
          \E owner \in Owners(lines, Len(paths)), cut \in BOOLEAN, delimiter \in SampleDelimiters :
              NewDocument(SmallFiles(paths, lines, owner, cut), delimiter)

NewLargeDocument ==
    /\ pc = "start"
    /\ \E files \in LargeFiles, delimiter \in SampleDelimiters : NewDocument(files, delimiter)

\* A caller parses a text: doc, err := ParseSiloFile(strings.NewReader(text))
ParseInput ==
    /\ pc = "start"
    /\ \E text \in SampleTexts :
          LET r == ParseSiloFile(text)
          IN /\ doc' = r.doc
             /\ err' = r.err
             /\ pc' = IF r.err = Nil THEN "built" ELSE "failed"
             /\ input' = text
    /\ origin' = "ParseSiloFile"
    /\ UNCHANGED <<fs, dirs, args, ret, before, out, parsed>>

\* err := doc.WriteTo(&buf)
WriteToStep ==
    /\ pc = "built"
    /\ \E r \in WriteTo(doc) :
          /\ doc' = r.doc
          /\ out' = r.out
          /\ err' = r.err
    /\ before' = doc
    /\ pc' = "written"
    /\ UNCHANGED <<fs, dirs, args, ret, origin, input, parsed>>

\* parsed, err := ParseSiloFile(strings.NewReader(buf.String()))
ParseWritten ==
    /\ pc = "written"
    /\ err = Nil
    /\ parsed' = ParseSiloFile(out)
    /\ pc' = "reparsed"
    /\ UNCHANGED <<fs, dirs, args, ret, doc, origin, input, before, out, err>>

Next ==
    \/ NewSmallDocument
    \/ NewLargeDocument
    \/ ParseInput
    \/ WriteToStep
    \/ ParseWritten

Spec == Init /\ [][Next]_vars

\* ------------------------------------------------------------------------
\* Packing files of the host: ReadFiles and ReadDirectoryTree
\* ------------------------------------------------------------------------
MaxPaths == 2

\* the host holds the files "a" and "d/b"; "d" is a directory, "x" is missing
SampleFileContents == { <<>>, <<Sample.x, LF>>, <<GT, SP, Sample.x, LF>> }
SampleFileSystems == [{<<Sample.a>>, <<Sample.d, SLASH, Sample.b>>} -> SampleFileContents]
SampleFilePaths == {<<Sample.a>>, <<Sample.d, SLASH, Sample.b>>, <<Sample.d>>, <<Sample.x>>}
SampleRoots == {<<DOT>>, <<Sample.d>>, <<Sample.a>>, <<Sample.x>>}

InitRead ==
    /\ fs \in SampleFileSystems
    /\ doc = NilDoc
    /\ origin = "none"
    /\ input = <<>>
    /\ before = NilDoc
    /\ out = <<>>
    /\ err = Nil
    /\ parsed = [doc |-> NilDoc, err |-> Nil]
    /\ ret = NoValue
    /\ dirs = {}
    /\ args = NoValue
    /\ pc = "start"

\* doc, err := ReadFiles(filePaths)
ReadFilesStep ==
    /\ pc = "start"
    /\ \E filePaths \in SeqsUpTo(SampleFilePaths, MaxPaths) :
          \E r \in ReadFiles(fs, filePaths) :
              /\ doc' = r.doc
              /\ err' = r.err
              /\ pc' = IF r.err = Nil THEN "built" ELSE "failed"
              /\ input' = filePaths
    /\ origin' = "ReadFiles"
    /\ UNCHANGED <<fs, dirs, args, ret, before, out, parsed>>

\* doc, err := ReadDirectoryTree(rootPath)
ReadDirectoryTreeStep ==
    /\ pc = "start"
    /\ \E rootPath \in SampleRoots :
          \E r \in ReadDirectoryTree(fs, rootPath) :
              /\ doc' = r.doc
              /\ err' = r.err
              /\ pc' = IF r.err = Nil THEN "built" ELSE "failed"
              /\ input' = rootPath
    /\ origin' = "ReadDirectoryTree"
    /\ UNCHANGED <<fs, dirs, args, ret, before, out, parsed>>

NextRead ==
    \/ ReadFilesStep
    \/ ReadDirectoryTreeStep
    \/ WriteToStep
    \/ ParseWritten

SpecRead == InitRead /\ [][NextRead]_vars

\* ------------------------------------------------------------------------
\* Delimiter selection over contents that eliminate whole runs of candidates
\* ------------------------------------------------------------------------

\* For one base character: nothing eliminated, or the candidates up to a
\* length, or the candidate of that length alone
BlockLevels == {0, 1, MaxDelimiterLength - 1, MaxDelimiterLength}

BlockLines(c, level, only) ==
    LET line(n) == Repeat(baseChars[c], n) \o <<SP, Sample.x>>
    IN IF level = 0 THEN <<>>
       ELSE IF only THEN <<line(level)>>
       ELSE [n \in 1..level |-> line(n)]

Reverse(seq) == [i \in 1..Len(seq) |-> seq[Len(seq) + 1 - i]]

BlockPaths == <<(<<Sample.a>>), (<<Sample.b>>), (<<Sample.d>>), (<<Sample.x>>)>>

\* One record holding every block in candidate order, or one record for
\* each character, last character first and longest line first
BlockFiles(level, only, split) ==
    IF split
    THEN [f \in 1..4 |->
             SiloFile(BlockPaths[f], Terminated(Reverse(BlockLines(5 - f, level[5 - f], only))))]
    ELSE <<SiloFile(BlockPaths[1],
                    Terminated(BlockLines(1, level[1], only) \o BlockLines(2, level[2], only)
                               \o BlockLines(3, level[3], only) \o BlockLines(4, level[4], only)))>>

NewBlockDocument ==
    /\ pc = "start"
    /\ \E level \in [1..4 -> BlockLevels], only \in BOOLEAN, split \in BOOLEAN :
          NewDocument(BlockFiles(level, only, split), <<>>)

NextSelect ==
    \/ NewBlockDocument
    \/ WriteToStep

SpecSelect == Init /\ [][NextSelect]_vars

\* ------------------------------------------------------------------------
\* Parsing texts under each line-ending convention
\* ------------------------------------------------------------------------

\* input lines: blank, whitespace only, "> a", "> b", "x"
SampleEndedLines ==
    { <<>>,
      <<SP, TAB>>,
      <<GT, SP, Sample.a>>,
      <<GT, SP, Sample.b>>,
      <<Sample.x>> }

\* the line endings a text file can use: LF, lone CR, CRLF
SampleEndings == { <<LF>>, <<CR>>, <<CR, LF>> }

\* The lines, each followed by `ending`; the last one too when `final`
RECURSIVE WithEndings(_, _, _)
WithEndings(lines, ending, final) ==
    IF lines = <<>> THEN <<>>
    ELSE IF Len(lines) = 1 THEN lines[1] \o (IF final THEN ending ELSE <<>>)
    ELSE lines[1] \o ending \o WithEndings(Tail(lines), ending, final)

\* file, err := os.Open(siloFile); doc, err := silo.ParseSiloFile(file)
ParseEndedInput ==
    /\ pc = "start"
    /\ \E lines \in SeqsUpTo(SampleEndedLines, MaxInputLines) :
          \E ending \in SampleEndings, final \in BOOLEAN :
              LET text == WithEndings(lines, ending, final)
                  r == ParseSiloFile(text)
              IN /\ doc' = r.doc
                 /\ err' = r.err
                 /\ pc' = IF r.err = Nil THEN "built" ELSE "failed"
                 /\ input' = text
    /\ origin' = "ParseSiloFile"
    /\ UNCHANGED <<fs, dirs, args, ret, before, out, parsed>>

NextLines ==
    \/ ParseEndedInput

SpecLines == Init /\ [][NextLines]_vars


\* ------------------------------------------------------------------------
\* Delimiter detection on single lines
\* ------------------------------------------------------------------------
MaxLineLen == 4

\* the characters of the sample lines: ">", space, tab, "a", a turtle,
\* U+FFFD and a no-break space
SampleLineChars == {GT, SP, TAB, Sample.a, Sample.turtle, RuneError, Sample.nbsp}

\* delim, path, err := detectDelimiter(test.line)
DetectStep ==
    /\ pc = "start"
    /\ \E line \in SeqsUpTo(SampleLineChars, MaxLineLen) :
          /\ input' = line
          /\ ret' = detectDelimiter(line)
    /\ origin' = "detectDelimiter"
    /\ pc' = "done"
    /\ UNCHANGED <<fs, dirs, args, doc, before, out, err, parsed>>

NextDetect ==
    \/ DetectStep

SpecDetect == Init /\ [][NextDetect]_vars


\* ------------------------------------------------------------------------
\* Path validation on single paths
\* ------------------------------------------------------------------------
MaxPathLen == 4

\* the characters of the sample paths: "a", ".", "/" and the null character
SamplePathChars == {Sample.a, DOT, SLASH, NUL}

\* err := validatePath(path)
ValidateStep ==
    /\ pc = "start"
    /\ \E path \in SeqsUpTo(SamplePathChars, MaxPathLen) :
          /\ input' = path
          /\ ret' = validatePath(path)
    /\ origin' = "validatePath"
    /\ pc' = "done"
    /\ UNCHANGED <<fs, dirs, args, doc, before, out, err, parsed>>

NextValidate ==
    \/ ValidateStep

SpecValidate == Init /\ [][NextValidate]_vars


\* ------------------------------------------------------------------------
\* Unpacking a silo file into a directory
\* ------------------------------------------------------------------------
MaxUnpackLines == 2

\* the paths the sample declarations carry
SampleUnpackPaths ==
    { <<Sample.a>>,
      <<Sample.a, SLASH, Sample.b>>,
      <<Sample.a, SLASH>>,
      <<DOT, SLASH, Sample.a>>,
      <<DOT, SLASH>>,
      <<DOT>>,
      <<DOT, DOT>>,
      <<DOT, DOT, SLASH, Sample.a>>,
      <<SLASH, Sample.a>> }

\* lines of a silo file: "> path" for each sample path, and the content "x"
SampleUnpackLines ==
    {<<GT, SP>> \o path : path \in SampleUnpackPaths} \cup {<<Sample.x>>}

\* output directories: ".", "o", "o/s"
SampleOutputDirs == { <<DOT>>, <<Sample.o>>, <<Sample.o, SLASH, Sample.s>> }

\* the directories standing on the host before the command runs
SampleHostDirs ==
    { {}, {<<Sample.o>>}, {<<Sample.o>>, <<Sample.o, SLASH, Sample.s>>} }

InitUnpack ==
    /\ fs = NoFiles
    /\ dirs \in SampleHostDirs
    /\ args \in [outputDir : SampleOutputDirs]
    /\ doc = NilDoc
    /\ origin = "none"
    /\ input = <<>>
    /\ before = NilDoc
    /\ out = <<>>
    /\ err = Nil
    /\ parsed = [doc |-> NilDoc, err |-> Nil]
    /\ ret = NoValue
    /\ pc = "start"

\* silo unpack -o outputDir siloFile
UnpackStep ==
    /\ pc = "start"
    /\ \E lines \in SeqsUpTo(SampleUnpackLines, MaxUnpackLines) :
          \E r \in {unpackCmd(Terminated(lines), args.outputDir, fs, dirs)} :
              /\ input' = Terminated(lines)
              /\ doc' = r.doc
              /\ fs' = r.fs
              /\ dirs' = r.dirs
              /\ err' = r.err
              /\ ret' = r.exit
    /\ origin' = "ParseSiloFile"
    /\ pc' = "unpacked"
    /\ UNCHANGED <<args, before, out, parsed>>

NextUnpack ==
    \/ UnpackStep

SpecUnpack == InitUnpack /\ [][NextUnpack]_vars


\* ------------------------------------------------------------------------
\* Validating and expanding patterns
\* ------------------------------------------------------------------------
MaxPatternTokens == 4
MaxPathTokens == 3
MaxPatterns == 2

\* the pieces sample patterns are made of: "a", ".", "/", ":", "C", "%2e",
\* "%25", "2e", "%"
SamplePatternTokens ==
    { <<Sample.a>>, <<DOT>>, <<SLASH>>, <<COLON>>, <<Sample.C>>,
      <<PERCENT, Sample.two, Sample.e>>,
      <<PERCENT, Sample.two, Sample.five>>,
      <<Sample.two, Sample.e>>,
      <<PERCENT>> }

\* the pieces sample paths are made of: "/w", "/a", "a", "..", "."
SamplePathTokens ==
    { <<SLASH, Sample.w>>, <<SLASH, Sample.a>>, <<Sample.a>>, <<DOT, DOT>>, <<DOT>> }

\* patterns handed to ExpandPatterns: "a", "d/b", "d", "./a", "x" (missing),
\* "..", "/w/a", "%2e%2e"
SampleExpandPatterns ==
    { <<Sample.a>>, <<Sample.d, SLASH, Sample.b>>, <<Sample.d>>, <<DOT, SLASH, Sample.a>>,
      <<Sample.x>>, <<DOT, DOT>>, <<SLASH, Sample.w, SLASH, Sample.a>>,
      <<PERCENT, Sample.two, Sample.e, PERCENT, Sample.two, Sample.e>> }

\* The pieces put one after the other
RECURSIVE Concat(_)
Concat(pieces) == IF pieces = <<>> THEN <<>> ELSE Head(pieces) \o Concat(Tail(pieces))

\* the working directory "/w" holds the files "a" and "d/b"
SampleWorkingDir == <<SLASH, Sample.w>>
SampleWorkingFiles ==
    [p \in {<<Sample.a>>, <<Sample.d, SLASH, Sample.b>>} |-> <<Sample.x, LF>>]

InitGlob ==
    /\ fs = SampleWorkingFiles
    /\ dirs = {}
    /\ args \in {SecureGlobExpander(allow, SampleWorkingDir) : allow \in BOOLEAN}
    /\ doc = NilDoc
    /\ origin = "none"
    /\ input = <<>>
    /\ before = NilDoc
    /\ out = <<>>
    /\ err = Nil
    /\ parsed = [doc |-> NilDoc, err |-> Nil]
    /\ ret = NoValue
    /\ pc = "start"

\* err := expander.ValidatePattern(test.pattern)
ValidatePatternStep ==
    /\ pc = "start"
    /\ \E pieces \in SeqsUpTo(SamplePatternTokens, MaxPatternTokens) :
          /\ input' = Concat(pieces)
          /\ ret' = ValidatePattern(args, Concat(pieces))
    /\ origin' = "ValidatePattern"
    /\ pc' = "done"
    /\ UNCHANGED <<fs, dirs, args, doc, before, out, err, parsed>>

\* err := expander.ValidatePath(test.path)
ValidatePathStep ==
    /\ pc = "start"
    /\ \E pieces \in SeqsUpTo(SamplePathTokens, MaxPathTokens) :
          /\ input' = Concat(pieces)
          /\ ret' = ValidatePath(args, Concat(pieces))
    /\ origin' = "ValidatePath"
    /\ pc' = "done"
    /\ UNCHANGED <<fs, dirs, args, doc, before, out, err, parsed>>

\* _, err := expander.ExpandPatterns(patterns, BothGlobs)
ExpandPatternsStep ==
    /\ pc = "start"
    /\ \E patterns \in SeqsUpTo(SampleExpandPatterns, MaxPatterns) :
          \E option \in {StandardGlob, EnhancedGlob, BothGlobs} :
              \E r \in {ExpandPatterns(fs, args, patterns, option)} :
                  /\ input' = patterns
                  /\ ret' = r.paths
                  /\ err' = r.err
    /\ origin' = "ExpandPatterns"
    /\ pc' = "done"
    /\ UNCHANGED <<fs, dirs, args, doc, before, out, parsed>>

NextGlob ==
    \/ ValidatePatternStep
    \/ ValidatePathStep
    \/ ExpandPatternsStep

SpecGlob == InitGlob /\ [][NextGlob]_vars


\* ------------------------------------------------------------------------
\* Running silo pack
\* ------------------------------------------------------------------------

\* command-line patterns: "a", "d/b", "d", "x" (missing), ".."
SamplePackPatterns ==
    { <<Sample.a>>, <<Sample.d, SLASH, Sample.b>>, <<Sample.d>>, <<Sample.x>>, <<DOT, DOT>> }

\* -d: not given, or ">"
SamplePackDelimiters == { <<>>, <<GT>> }

\* -o: not given, the new file "o", the directory "d", or the file "a" the
\* host holds already
SampleOutputFiles == { <<>>, <<Sample.o>>, <<Sample.d>>, <<Sample.a>> }

\* silo pack [-d delimiter] [-o outputFile] [-enhanced] patterns...
PackStep ==
    /\ pc = "start"
    /\ \E patterns \in SeqsUpTo(SamplePackPatterns, MaxPatterns) :
          \E delimiter \in SamplePackDelimiters, outputFile \in SampleOutputFiles,
             useEnhanced \in BOOLEAN :
              \E r \in packCmd(fs, SampleWorkingDir, patterns, delimiter, outputFile,
                               useEnhanced) :
                  /\ args' = [patterns |-> patterns, delimiter |-> delimiter,
                              outputFile |-> outputFile, useEnhanced |-> useEnhanced]
                  /\ fs' = r.fs
                  /\ doc' = r.doc
                  /\ out' = r.stdout
                  /\ err' = r.failed
                  /\ ret' = [exit |-> r.exit, stderr |-> r.stderr]
    /\ origin' = "packCmd"
    /\ pc' = "packed"
    /\ UNCHANGED <<dirs, input, before, parsed>>

NextPack ==
    \/ PackStep

SpecPack == InitRead /\ [][NextPack]_vars


\* ------------------------------------------------------------------------
\* Writing back a parsed text
\* ------------------------------------------------------------------------

\* The lines, each followed by its own line ending
RECURSIVE WithEachEnding(_, _)
WithEachEnding(lines, endings) ==
    IF lines = <<>> THEN <<>>
    ELSE lines[1] \o endings[1] \o WithEachEnding(Tail(lines), Tail(endings))

\* doc, err := silo.ParseSiloFile(file) on a text whose lines end as the
\* tools that wrote them chose
ParseMixedInput ==
    /\ pc = "start"
    /\ \E lines \in SeqsUpTo(SampleEndedLines, MaxInputLines) :
          \E endings \in [1..Len(lines) -> SampleEndings] :
              \E r \in {ParseSiloFile(WithEachEnding(lines, endings))} :
                  /\ doc' = r.doc
                  /\ err' = r.err
                  /\ pc' = IF r.err = Nil THEN "built" ELSE "failed"
                  /\ input' = WithEachEnding(lines, endings)
    /\ origin' = "ParseSiloFile"
    /\ UNCHANGED <<fs, dirs, args, ret, before, out, parsed>>

NextRewrite ==
    \/ ParseMixedInput
    \/ WriteToStep

SpecRewrite == Init /\ [][NextRewrite]_vars


\* ------------------------------------------------------------------------
\* Writing the same Document twice
\* ------------------------------------------------------------------------

\* contents: empty, "x", "> x", "= x", and "> x" followed by "= x"
SampleChangeContents ==
    { <<>>,
      <<Sample.x, LF>>,
      <<GT, SP, Sample.x, LF>>,
      <<EQ, SP, Sample.x, LF>>,
      <<GT, SP, Sample.x, LF, EQ, SP, Sample.x, LF>> }

\* doc := &SiloDocument{Files: ...}, the delimiter left unset
NewUnsetDocument ==
    /\ pc = "start"
    /\ \E paths \in SeqsUpTo(SamplePaths, MaxFiles) :
          \E contents \in [1..Len(paths) -> SampleChangeContents] :
              NewDocument([f \in 1..Len(paths) |-> SiloFile(paths[f], contents[f])], <<>>)

\* Between two calls of WriteTo the caller replaces the content of a record:
\* doc.Files[f].Content = content
ChangeContent ==
    /\ pc = "written"
    /\ err = Nil
    /\ \E f \in 1..Len(doc.Files), content \in SampleChangeContents :
          doc' = [doc EXCEPT !.Files[f].Content = content]
    /\ pc' = "changed"
    /\ UNCHANGED <<fs, dirs, args, ret, origin, input, before, out, err, parsed>>

\* err = doc.WriteTo(&buf2): ret keeps the Document the call started from,
\* what reached the second writer and the error returned
WriteToAgain ==
    /\ pc \in {"written", "changed"}
    /\ err = Nil
    /\ \E r \in WriteTo(doc) :
          /\ ret' = [from |-> doc, out |-> r.out, err |-> r.err]
          /\ doc' = r.doc
    /\ pc' = "rewritten"
    /\ UNCHANGED <<fs, dirs, args, origin, input, before, out, err, parsed>>

NextTwice ==
    \/ NewUnsetDocument
    \/ WriteToStep
    \/ ChangeContent
    \/ WriteToAgain

SpecTwice == Init /\ [][NextTwice]_vars


\* ------------------------------------------------------------------------
\* Vocabulary of the properties, stated on the characters of a content
\* rather than through the operators above
\* ------------------------------------------------------------------------

\* The positions where a line of `content` starts
LineStarts(content) ==
    {p \in 1..Len(content) : p = 1 \/ content[p - 1] = LF}

\* At position p, `content` reads: the token, character for character, then
\* one ASCII space
BeginsAt(content, p, token) ==
    /\ p + Len(token) <= Len(content)
    /\ \A i \in 1..Len(token) : content[p + i - 1] = token[i]
    /\ content[p + Len(token)] = SP

\* Some line of the record's content starts with the token and a space
FileCollides(file, token) ==
    \E p \in LineStarts(file.Content) : BeginsAt(file.Content, p, token)

DocCollides(files, token) ==
    \E f \in 1..Len(files) : FileCollides(files[f], token)

\* The candidate tokens: each of ">", "=", "*", "-" repeated 1..50 times
Tokens == {Repeat(c, n) : c \in {GT, EQ, STAR, DASH}, n \in 1..MaxDelimiterLength}

\* The candidate tokens some line of `content` starts with, followed by a
\* space
Touched(content) ==
    LET starts == LineStarts(content)
    IN {token \in Tokens : \E p \in starts : BeginsAt(content, p, token)}

\* The candidate tokens that no content line of the records starts with,
\* followed by a space
Untouched(files) ==
    Tokens \ UNION {Touched(files[f].Content) : f \in 1..Len(files)}

DistinctPaths(files) ==
    \A i, j \in 1..Len(files) : i # j => files[i].Path # files[j].Path

PathContentPairs(files) ==
    [f \in 1..Len(files) |-> <<files[f].Path, files[f].Content>>]

\* A document of the data model: every path a valid relative path, paths
\* pairwise distinct, every content empty or ending in a line feed
InDataModel(d) ==
    /\ \A f \in 1..Len(d.Files) :
          /\ validatePath(d.Files[f].Path) = "nil"
          /\ LET c == d.Files[f].Content IN c = <<>> \/ c[Len(c)] = LF
    /\ DistinctPaths(d.Files)

\* C1: for a Document of the data model whose delimiter is unset or does
\* not collide, parsing the text WriteTo produced returns the same ordered
\* (path, content) pairs.
C1_RoundTrip ==
    (pc = "reparsed" /\ InDataModel(before)) =>
        /\ parsed.err = Nil
        /\ PathContentPairs(parsed.doc.Files) = PathContentPairs(before.Files)

\* C2: when WriteTo succeeds on a Document whose delimiter was unset, the
\* delimiter it adopts and emits collides with no content line: no line of
\* any record's content starts with that delimiter followed by a space.
C2_AutoDelimiterNeverCollides ==
    (pc = "written" /\ before.Delimiter = <<>> /\ err = Nil) =>
        /\ doc.Delimiter # <<>>
        /\ ~DocCollides(before.Files, doc.Delimiter)
        /\ before.Files # <<>> => HasPrefix(out, doc.Delimiter \o <<SP>>)

\* C2 witness: an unset delimiter resolved to "=" because a content line
\* starts with "> "
C2_Witness ==
    /\ pc = "written"
    /\ before.Delimiter = <<>>
    /\ err = Nil
    /\ doc.Delimiter = <<EQ>>
    /\ DocCollides(before.Files, <<GT>>)

\* C5: with an explicit delimiter, WriteTo fails with DelimiterCollision
\* exactly when some content line starts with the delimiter and a space; the
\* error names the first record in document order that has such a line and
\* carries the delimiter findSafeDelimiter returns for the document, or the
\* NoSafeDelimiter note when there is none.
C5_CollisionError ==
    (pc = "written" /\ before.Delimiter # <<>>) =>
        IF DocCollides(before.Files, before.Delimiter)
        THEN /\ err.kind = "DelimiterCollision"
             /\ LET first == Min({f \in 1..Len(before.Files) :
                                     FileCollides(before.Files[f], before.Delimiter)})
                IN err.path = before.Files[first].Path
             /\ \E r \in findSafeDelimiter(before) :
                   IF r.err = Nil
                   THEN err.cause = "nil" /\ err.suggestion = r.delimiter
                   ELSE err.cause = "NoSafeDelimiter"
        ELSE err = Nil

\* C5 witness: both records have a colliding line and the error names the
\* first
C5_Witness ==
    /\ pc = "written"
    /\ err.kind = "DelimiterCollision"
    /\ Len(before.Files) = 2
    /\ before.Files[1].Path # before.Files[2].Path
    /\ FileCollides(before.Files[1], before.Delimiter)
    /\ FileCollides(before.Files[2], before.Delimiter)
    /\ err.path = before.Files[1].Path

\* C6: a content line collides with a delimiter exactly when it begins with
\* the delimiter immediately followed by one ASCII space, in WriteTo's check
\* of an explicit delimiter and in findSafeDelimiter's elimination alike.
C6_PrefixExact ==
    pc = "written" =>
        /\ before.Delimiter # <<>> =>
              ((err.kind = "DelimiterCollision") <=>
                   DocCollides(before.Files, before.Delimiter))
        /\ (before.Delimiter = <<>> \/ err.kind = "DelimiterCollision") =>
              Survivors(before) = Untouched(before.Files)

\* C6 witness: delimiter ">" written without error over the lines ">> x"
\* and ">x"
C6_Witness ==
    /\ pc = "written"
    /\ before.Delimiter = <<GT>>
    /\ err = Nil
    /\ Len(before.Files) = 1
    /\ before.Files[1].Content = <<GT, GT, SP, Sample.x, LF, GT, Sample.x, LF>>

\* The declaration lines of a parsed text, by the text's own characters:
\* the first non-blank line, and every later line that starts with the
\* delimiter of the first followed by a space
FirstLine(lines) == Min({i \in 1..Len(lines) : ~isBlankLine(lines[i])} \cup {Len(lines) + 1})

LaterDeclarations(lines, delim) ==
    {i \in (FirstLine(lines) + 1)..Len(lines) : BeginsAt(lines[i], 1, delim)}

\* The path a declaration line carries, surrounding whitespace trimmed
DeclaredPath(lines, delim, i) ==
    IF i = FirstLine(lines) THEN detectDelimiter(lines[i]).path
    ELSE TrimSpace(SubSeq(lines[i], Len(delim) + 2, Len(lines[i])))

\* The later declaration that first repeats the path of an earlier one (0
\* when no path is declared twice)
FirstRepeat(lines, delim) ==
    LET decls == {FirstLine(lines)} \cup LaterDeclarations(lines, delim)
        rep == {j \in decls : \E i \in decls :
                   i < j /\ DeclaredPath(lines, delim, i) = DeclaredPath(lines, delim, j)}
    IN IF rep = {} THEN 0 ELSE Min(rep)

\* A text whose first non-blank line is a well-formed declaration
HasDeclarations(lines) ==
    /\ FirstLine(lines) <= Len(lines)
    /\ detectDelimiter(lines[FirstLine(lines)]).err = "nil"

\* C7 as stated: every Document ParseSiloFile returns has pairwise distinct
\* paths, and a text in which two declaration lines carry the same path
\* fails with DuplicatePath and yields no document.
C7_DuplicateAlwaysReported ==
    /\ (pc = "reparsed" /\ parsed.err = Nil) => DistinctPaths(parsed.doc.Files)
    /\ (origin = "ParseSiloFile" /\ err = Nil) => DistinctPaths(doc.Files)
    /\ (origin = "ParseSiloFile" /\ pc \in {"built", "failed"}) =>
          LET lines == ReadLines(input) IN
          (HasDeclarations(lines) /\
           FirstRepeat(lines, detectDelimiter(lines[FirstLine(lines)]).delim) # 0) =>
              (err.kind = "DuplicatePath" /\ doc = NilDoc)

\* C7 amended: every Document ParseSiloFile returns has pairwise distinct
\* paths; a text in which two declaration lines carry the same path yields
\* no document, failing with DuplicatePath when every declaration up to the
\* first repeated one carries a path validatePath accepts, and with
\* InvalidPath otherwise.
C7_DistinctPaths ==
    /\ (pc = "reparsed" /\ parsed.err = Nil) => DistinctPaths(parsed.doc.Files)
    /\ (origin = "ParseSiloFile" /\ err = Nil) => DistinctPaths(doc.Files)
    /\ (origin = "ParseSiloFile" /\ pc \in {"built", "failed"}) =>
          LET lines == ReadLines(input) IN
          HasDeclarations(lines) =>
              LET delim == detectDelimiter(lines[FirstLine(lines)]).delim
                  rep == FirstRepeat(lines, delim)
                  upTo == {i \in {FirstLine(lines)} \cup LaterDeclarations(lines, delim) : i <= rep}
              IN rep # 0 =>
                    /\ doc = NilDoc
                    /\ IF \A i \in upTo : validatePath(DeclaredPath(lines, delim, i)) = "nil"
                       THEN err.kind = "DuplicatePath" /\ err.path = DeclaredPath(lines, delim, rep)
                       ELSE err.kind = "InvalidPath"

\* C7 witness: "> a" declared again as "> a " (trailing space) is reported
\* as a duplicate
C7_Witness ==
    /\ origin = "ParseSiloFile"
    /\ pc = "failed"
    /\ err.kind = "DuplicatePath"
    /\ input = <<GT, SP, Sample.a, LF, GT, SP, Sample.a, SP, LF>>

RECURSIVE SortedSeq(_)
SortedSeq(S) == IF S = {} THEN <<>> ELSE <<Min(S)>> \o SortedSeq(S \ {Min(S)})

\* Without one final line feed
WithoutFinalLF(content) ==
    IF content # <<>> /\ content[Len(content)] = LF
    THEN SubSeq(content, 1, Len(content) - 1) ELSE content

\* C10: the delimiter of a parse is the one of the first declaration line;
\* a later line is a declaration exactly when it starts, character for
\* character, with that delimiter and one space, and every other later line
\* is kept verbatim in the content of the record it follows.
C10_DelimiterFixed ==
    (origin = "ParseSiloFile" /\ pc = "built" /\ doc.Files # <<>>) =>
        LET lines == ReadLines(input)
            first == FirstLine(lines)
            delim == detectDelimiter(lines[first]).delim
            decls == <<first>> \o SortedSeq(LaterDeclarations(lines, delim))
                         \o <<Len(lines) + 1>>
        IN /\ doc.Delimiter = delim
           /\ Len(doc.Files) = Len(decls) - 1
           /\ \A k \in 1..Len(doc.Files) :
                 /\ doc.Files[k].Path = DeclaredPath(lines, delim, decls[k])
                 /\ WithoutFinalLF(doc.Files[k].Content) =
                        Join(SubSeq(lines, decls[k] + 1, decls[k + 1] - 1), LF)

\* C10 witness: after "> a", the lines ">> a" and " > b" stay content of a
C10_Witness ==
    /\ origin = "ParseSiloFile"
    /\ pc = "built"
    /\ input = <<GT, SP, Sample.a, LF, GT, GT, SP, Sample.a, LF, SP, GT, SP, Sample.b, LF>>
    /\ Len(doc.Files) = 1
    /\ doc.Files[1].Content = <<GT, GT, SP, Sample.a, LF, SP, GT, SP, Sample.b, LF>>

\* The order of preference the selection rule names
ClaimedOrder == <<GT, EQ, STAR, DASH>>

\* The first survivor met when iterating the lengths 1..50 and, within each
\* length, the four characters in the order of preference
FirstSurvivor(files) ==
    LET free == Untouched(files)
        n == Min({Len(token) : token \in free})
        c == Min({k \in 1..4 : Repeat(ClaimedOrder[k], n) \in free})
    IN Repeat(ClaimedOrder[c], n)

\* C3: whenever a candidate survives, findSafeDelimiter returns the
\* surviving candidate of smallest length, ties broken by the order ">",
\* "=", "*", "-", whatever the order of the records, of their lines and of
\* the iteration over the candidate map.
C3_ShortestPreferred ==
    (pc = "written" /\ before.Delimiter = <<>> /\ err.kind # "NoSafeDelimiter") =>
        /\ err = Nil
        /\ doc.Delimiter = FirstSurvivor(before.Files)

\* C3 witness: every candidate shorter than 50, and ">" and "=" repeated 50
\* times, are eliminated; "*" repeated 50 times is selected, not "-"
C3_Witness ==
    /\ pc = "written"
    /\ before.Delimiter = <<>>
    /\ err = Nil
    /\ doc.Delimiter = Repeat(STAR, MaxDelimiterLength)
    /\ ~DocCollides(before.Files, Repeat(DASH, MaxDelimiterLength))

\* C4: findSafeDelimiter fails with NoSafeDelimiter exactly when every one
\* of the 200 candidates is eliminated by some content line; when one
\* survives it returns a delimiter and no error.
C4_NoSafeDelimiterIffExhausted ==
    (pc = "written" /\ before.Delimiter = <<>>) =>
        LET free == Untouched(before.Files)
        IN IF free = {}
           THEN err.kind = "NoSafeDelimiter" /\ doc = before /\ out = <<>>
           ELSE err = Nil /\ doc.Delimiter \in free

\* C4 witness: all 200 candidates are eliminated and the call fails
C4_Witness ==
    /\ pc = "written"
    /\ before.Delimiter = <<>>
    /\ err.kind = "NoSafeDelimiter"
    /\ \A c \in {GT, EQ, STAR, DASH}, n \in {1, MaxDelimiterLength} :
          DocCollides(before.Files, Repeat(c, n))

\* C8: all path values of a Document ReadFiles or ReadDirectoryTree builds
\* are unique, for any list of file paths.
C8_UniquePaths ==
    (origin \in {"ReadFiles", "ReadDirectoryTree"} /\ pc = "built") => DistinctPaths(doc.Files)

\* C9: a Document built by ReadFiles or ReadDirectoryTree has its delimiter
\* unset, and WriteTo called on it directly succeeds, whatever the contents.
C9_ReadLeavesDelimiterUnset ==
    /\ (origin \in {"ReadFiles", "ReadDirectoryTree"} /\ pc = "built") => doc.Delimiter = <<>>
    /\ (origin \in {"ReadFiles", "ReadDirectoryTree"} /\ pc = "written") => err = Nil

\* Without its leading blank lines: the longest prefix made of whitespace
\* only and ending in a line terminator is dropped
WithoutLeadingBlankLines(text) ==
    LET ends == {k \in 1..Len(text) :
                    /\ text[k] \in {LF, CR}
                    /\ \A i \in 1..k : IsSpace(text[i])}
    IN IF ends = {} THEN text ELSE SubSeq(text, Max(ends) + 1, Len(text))

\* C11: a text that is empty or holds only blank lines parses without error
\* to a Document with no records and an unset delimiter; blank lines before
\* the first declaration are skipped: the text parses to the delimiter and
\* records of the text without them.
C11_BlankInput ==
    (origin = "ParseSiloFile" /\ pc \in {"built", "failed"}) =>
        /\ (\A i \in 1..Len(input) : IsSpace(input[i])) =>
              (err = Nil /\ doc = SiloDocument(<<>>, <<>>))
        /\ LET r == ParseSiloFile(WithoutLeadingBlankLines(input))
           IN doc = r.doc /\ err.kind = r.err.kind
        /\ (err = Nil /\ doc.Files # <<>>) =>
              \E k \in 1..Len(input) :
                  /\ \A i \in 1..(k - 1) : IsSpace(input[i])
                  /\ BeginsAt(input, k, doc.Delimiter)

\* C11 witness: a blank line and a line of a space and a tab parse to the
\* empty Document
C11_Witness ==
    /\ origin = "ParseSiloFile"
    /\ pc = "built"
    /\ input = <<LF, SP, TAB, LF>>
    /\ doc = SiloDocument(<<>>, <<>>)
    /\ err = Nil


\* The characters that end a delimiter run
RunEnders == {SP, TAB, LF, CR}

\* Where the maximal run of delimiter characters at the start of the line
\* stops: the index of the first space, tab, LF or CR (Len + 1 without one)
RunStop(line) ==
    Min({i \in 1..Len(line) : line[i] \in RunEnders} \cup {Len(line) + 1})

\* Holds a character that is not whitespace
HasText(s) == \E i \in 1..Len(s) : ~IsSpace(s[i])

\* C12: for a line made of a non-empty run D of characters other than
\* space, tab, LF and CR, one ASCII space and a text holding a
\* non-whitespace character, detectDelimiter returns D and the text trimmed
\* of surrounding whitespace; when the run is followed by another character
\* or by the end of the line it fails with InvalidDeclaration.
C12_UnicodePermissive ==
    (origin = "detectDelimiter" /\ pc = "done") =>
        LET stop == RunStop(input)
            rest == SubSeq(input, stop + 1, Len(input))
        IN stop > 1 =>
              IF stop <= Len(input) /\ input[stop] = SP
              THEN HasText(rest) =>
                      ret = [delim |-> SubSeq(input, 1, stop - 1),
                             path |-> TrimSpace(rest), err |-> "nil"]
              ELSE ret.err = "InvalidDeclaration"

\* C18: a line made of a non-empty delimiter run, one ASCII space and then
\* nothing but whitespace fails with EmptyPath; a line that ends right after
\* the run fails with InvalidDeclaration.  (Stated for runs without Unicode
\* whitespace and without U+FFFD.)
C18_EmptyPath ==
    (origin = "detectDelimiter" /\ pc = "done") =>
        LET stop == RunStop(input)
            rest == SubSeq(input, stop + 1, Len(input))
        IN (stop > 1 /\ \A i \in 1..(stop - 1) : ~IsSpace(input[i]) /\ input[i] # RuneError) =>
              /\ (stop <= Len(input) /\ input[stop] = SP /\ ~HasText(rest)) =>
                    ret.err = "EmptyPath"
              /\ stop > Len(input) => ret.err = "InvalidDeclaration"

\* C17: a text whose first non-blank line starts with a space or a tab fails
\* with DelimiterDetectionFailed, the detector reporting InvalidDeclaration
\* because no delimiter character can be consumed at the start of the line.
C17_NoTrimBeforeScan ==
    (origin = "ParseSiloFile" /\ pc \in {"built", "failed"}) =>
        LET lines == ReadLines(input)
            first == FirstLine(lines)
        IN (first <= Len(lines) /\ lines[first][1] \in {SP, TAB}) =>
              /\ doc = NilDoc
              /\ err.kind = "DelimiterDetectionFailed"
              /\ err.cause = "InvalidDeclaration"


\* The two-character substring ".." occurs somewhere in the path
HasDotDot(path) == \E i \in 1..(Len(path) - 1) : path[i] = DOT /\ path[i + 1] = DOT

\* C13: validatePath accepts a path exactly when it is non-empty, is not
\* ".", is not absolute, holds no ".." substring and no null character; a
\* path that breaks several of these rules reports the first one in that
\* order.
C13_ValidatePathOrder ==
    (origin = "validatePath" /\ pc = "done") =>
        ret = IF Len(input) = 0 \/ (Len(input) = 1 /\ input[1] = DOT) THEN "InvalidPath"
              ELSE IF input[1] = SLASH THEN "AbsolutePathNotAllowed"
              ELSE IF HasDotDot(input) THEN "ParentReferenceNotAllowed"
              ELSE IF \E i \in 1..Len(input) : input[i] = NUL THEN "NullByteInPath"
              ELSE "nil"

\* C13 witness: "a.." followed by a null character breaks two rules and is
\* reported for its ".." substring
C13_Witness ==
    /\ origin = "validatePath"
    /\ pc = "done"
    /\ input = <<Sample.a, DOT, DOT, NUL>>
    /\ ret = "ParentReferenceNotAllowed"


\* A relative path that names something below the directory it is joined
\* to: not empty, not ".", not starting with "/", without ".." and without
\* a null character
SafeRelative(path) ==
    /\ path # <<>>
    /\ path # <<DOT>>
    /\ path[1] # SLASH
    /\ ~HasDotDot(path)
    /\ \A i \in 1..Len(path) : path[i] # NUL

\* The location is the directory `root` or lies below it
Within(root, location) ==
    /\ ~HasDotDot(location)
    /\ IF root = <<DOT>> THEN location[1] # SLASH
       ELSE location = root \/ HasPrefix(location, root \o <<SLASH>>)

\* The location is a directory above `root`
Above(root, location) == HasPrefix(root, location \o <<SLASH>>)

\* C14: every record path of a Document ParseSiloFile returns passed
\* validatePath, and unpacking it writes files only at the output directory
\* or below it and makes no directory besides the output directory, the
\* directories leading to it and directories below it.
C14_UnpackStaysInside ==
    pc = "unpacked" =>
        /\ doc # NilDoc => \A f \in 1..Len(doc.Files) : SafeRelative(doc.Files[f].Path)
        /\ \A location \in DOMAIN fs : Within(args.outputDir, location)
        /\ \A d \in dirs : Within(args.outputDir, d) \/ Above(args.outputDir, d)

\* C14 witness: "a/b" unpacked into the missing directory "o/s" makes
\* "o", "o/s" and "o/s/a" and writes "o/s/a/b"
C14_Witness ==
    /\ pc = "unpacked"
    /\ args.outputDir = <<Sample.o, SLASH, Sample.s>>
    /\ input = <<GT, SP, Sample.a, SLASH, Sample.b, LF, Sample.x, LF>>
    /\ err = Nil
    /\ DOMAIN fs = {<<Sample.o, SLASH, Sample.s, SLASH, Sample.a, SLASH, Sample.b>>}
    /\ dirs = {<<Sample.o>>, <<Sample.o, SLASH, Sample.s>>,
               <<Sample.o, SLASH, Sample.s, SLASH, Sample.a>>}


\* The path lies in the working directory or in a directory below it
InsideWorkingDir(sge, path) ==
    /\ HasPrefix(path, sge.WorkingDir \o <<SLASH>>)
    /\ Len(path) > Len(sge.WorkingDir) + 1
    /\ LET segs == Split(path, SLASH)
       IN \A s \in 2..Len(segs) : segs[s] \notin {<<>>, <<DOT>>, <<DOT, DOT>>}

\* The path resolves to a place that is neither the working directory nor
\* below it
ResolvesOutside(sge, path) ==
    LET clean == Clean(path)
    IN IF path # <<>> /\ path[1] = SLASH
       THEN clean # sge.WorkingDir /\ ~HasPrefix(clean, sge.WorkingDir \o <<SLASH>>)
       ELSE clean = <<DOT, DOT>> \/ HasPrefix(clean, <<DOT, DOT, SLASH>>)

\* C19: with AllowAbsolute false, ValidatePath accepts an absolute path
\* that lies inside the working directory and rejects a path that resolves
\* outside it.
C19_AbsoluteInsideAccepted ==
    (origin = "ValidatePath" /\ pc = "done" /\ ~args.AllowAbsolute) =>
        /\ InsideWorkingDir(args, input) => ret = "nil"
        /\ ResolvesOutside(args, input) => ret # "nil"

\* A pattern the rules forbid as it stands: absolute, starting with a drive
\* letter and ":", or holding ".."
Forbidden(pattern) ==
    \/ pattern # <<>> /\ pattern[1] = SLASH
    \/ /\ Len(pattern) >= 2
       /\ pattern[1] \in (65..90) \cup (97..122)
       /\ pattern[2] = COLON
    \/ HasDotDot(pattern)

\* The pattern and what it percent-decodes to, level after level
RECURSIVE DecodedForms(_)
DecodedForms(pattern) ==
    {pattern} \cup
        (IF (\E i \in 1..Len(pattern) : pattern[i] = PERCENT) /\ QueryUnescape(pattern).err = "nil"
         THEN DecodedForms(QueryUnescape(pattern).value) ELSE {})

MustReject(pattern) == \E form \in DecodedForms(pattern) : Forbidden(form)

\* C20: with AllowAbsolute false, ValidatePattern rejects every pattern that
\* is absolute, starts with a drive letter and ":", holds "..", or decodes,
\* through any number of percent-encodings, to such a pattern; ExpandPatterns
\* returns an error and no paths when one of its patterns is such a pattern.
C20_PatternsRejected ==
    /\ (origin = "ValidatePattern" /\ pc = "done" /\ ~args.AllowAbsolute /\ MustReject(input)) =>
          ret # "nil"
    /\ (origin = "ExpandPatterns" /\ pc = "done" /\ ~args.AllowAbsolute
            /\ \E i \in 1..Len(input) : MustReject(input[i])) =>
          (err # Nil /\ ret = <<>>)

\* C20 witness: "%252e%252e", which decodes to "%2e%2e" and then to "..",
\* is rejected
C20_Witness ==
    /\ origin = "ValidatePattern"
    /\ pc = "done"
    /\ ~args.AllowAbsolute
    /\ input = <<PERCENT, Sample.two, Sample.five, Sample.two, Sample.e,
                 PERCENT, Sample.two, Sample.five, Sample.two, Sample.e>>
    /\ ret = "EncodedForbidden"


\* C15: silo pack exits with a non-zero code and a message on the error
\* stream whenever a step fails, WriteTo included, whether the output goes
\* to standard output or to the file named with -o; it exits with code 0
\* only when the whole document was written.
C15_PackReportsFailure ==
    pc = "packed" =>
        /\ err # Nil => (ret.exit # 0 /\ ret.stderr # "")
        /\ ret.exit = 0 =>
              /\ err = Nil
              /\ EmitAll(doc.Delimiter, doc.Files) =
                     IF args.outputFile = <<>> THEN out ELSE fs[args.outputFile]

\* Every line ending of the text as a line feed: CRLF and lone CR become LF
RECURSIVE Normalized(_)
Normalized(text) ==
    IF text = <<>> THEN <<>>
    ELSE IF Head(text) = CR
    THEN <<LF>> \o Normalized(IF Len(text) >= 2 /\ text[2] = LF
                              THEN SubSeq(text, 3, Len(text)) ELSE Tail(text))
    ELSE <<Head(text)>> \o Normalized(Tail(text))

\* C16: CRLF, a lone CR and LF each end a line: a text parses to the
\* delimiter and records, or to the failure, of the same text with every
\* line ending written as LF.
C16_LineEndings ==
    (origin = "ParseSiloFile" /\ pc \in {"built", "failed"}) =>
        LET r == ParseSiloFile(Normalized(input))
        IN doc = r.doc /\ (err = Nil <=> r.err = Nil)


\* The newline WriteTo owes a content: none for an empty content or one
\* that ends with a newline
OwedNewline(content) ==
    IF content # <<>> /\ content[Len(content)] # LF THEN <<LF>> ELSE <<>>

\* The number of characters a record takes in the text: its declaration
\* line, its content and the newline owed
Span(delimiter, file) ==
    Len(delimiter) + 1 + Len(file.Path) + 1 + Len(file.Content) + Len(OwedNewline(file.Content))

\* Where the record after the first n records starts in the text
RECURSIVE StartAfter(_, _, _)
StartAfter(delimiter, files, n) ==
    IF n = 0 THEN 1 ELSE StartAfter(delimiter, files, n - 1) + Span(delimiter, files[n])

\* The text reads t from position p on
ReadsAt(text, p, t) ==
    /\ p + Len(t) - 1 <= Len(text)
    /\ \A i \in 1..Len(t) : text[p + i - 1] = t[i]

\* C21: on success WriteTo emits, for each record in document order and
\* nothing else, the line "delimiter, space, path" and then the record's
\* content unchanged, with one newline appended only when the content is
\* not empty and does not end with a newline; a record with empty content
\* contributes its declaration line only.
C21_EmittedText ==
    (pc = "written" /\ err = Nil) =>
        /\ doc.Files = before.Files
        /\ Len(out) = StartAfter(doc.Delimiter, doc.Files, Len(doc.Files)) - 1
        /\ \A f \in 1..Len(doc.Files) :
              LET file == doc.Files[f]
                  p == StartAfter(doc.Delimiter, doc.Files, f - 1)
                  q == p + Len(doc.Delimiter) + 1
                  c == q + Len(file.Path) + 1
              IN /\ ReadsAt(out, p, doc.Delimiter)
                 /\ out[q - 1] = SP
                 /\ ReadsAt(out, q, file.Path)
                 /\ out[c - 1] = LF
                 /\ ReadsAt(out, c, file.Content)
                 /\ ReadsAt(out, c + Len(file.Content), OwedNewline(file.Content))

\* C21 witness: a record with empty content, then one whose content lacks
\* the final newline
C21_Witness ==
    /\ pc = "written"
    /\ err = Nil
    /\ Len(doc.Files) = 2
    /\ doc.Files[1].Content = <<>>
    /\ doc.Files[2].Content = <<GT, Sample.x>>
    /\ out = doc.Delimiter \o <<SP>> \o doc.Files[1].Path \o <<LF>>
                 \o doc.Delimiter \o <<SP>> \o doc.Files[2].Path \o <<LF, GT, Sample.x, LF>>

\* C22: blank lines are preserved by the parser: the content of every
\* record is exactly the lines that follow its declaration up to the next
\* declaration or the end of the input, each terminated by one newline, so
\* a record followed by k content lines has a content with k newlines.
C22_ContentLinesKept ==
    (origin = "ParseSiloFile" /\ pc = "built" /\ doc.Files # <<>>) =>
        LET lines == ReadLines(input)
            first == FirstLine(lines)
            delim == detectDelimiter(lines[first]).delim
            decls == <<first>> \o SortedSeq(LaterDeclarations(lines, delim))
                         \o <<Len(lines) + 1>>
        IN /\ Len(doc.Files) = Len(decls) - 1
           /\ \A k \in 1..Len(doc.Files) :
                 LET content == doc.Files[k].Content
                     following == SubSeq(lines, decls[k] + 1, decls[k + 1] - 1)
                 IN /\ content = Terminated(following)
                    /\ Cardinality({i \in 1..Len(content) : content[i] = LF}) = Len(following)

\* The line of the text with the 1-based number n, blank lines counted: it
\* starts after the (n-1)th line feed
LineOfText(text, n) ==
    LET p == SortedSeq(LineStarts(text))[n]
        stops == {q \in p..Len(text) : text[q] = LF}
    IN SubSeq(text, p, IF stops = {} THEN Len(text) ELSE Min(stops) - 1)

\* C23: parse errors are terminal and located: a failed ParseSiloFile
\* returns no Document at all, and the error of a failed delimiter
\* detection or path validation carries the 1-based number of the
\* offending declaration line in the input, leading blank lines counted,
\* for the first declaration and for later ones.
C23_ErrorsTerminalAndLocated ==
    /\ (pc = "reparsed" /\ parsed.err # Nil) => parsed.doc = NilDoc
    /\ (origin = "ParseSiloFile" /\ pc \in {"built", "failed"}) =>
          /\ pc = "failed" <=> err # Nil
          /\ err # Nil => doc = NilDoc
          /\ err.kind \in {"DelimiterDetectionFailed", "InvalidPath"} =>
                /\ err.line \in 1..Cardinality(LineStarts(input))
                /\ LET line == LineOfText(input, err.line)
                       before1 == {n \in 1..(err.line - 1) : ~isBlankLine(LineOfText(input, n))}
                   IN IF err.kind = "DelimiterDetectionFailed"
                      THEN /\ before1 = {}
                           /\ ~isBlankLine(line)
                           /\ detectDelimiter(line).err # "nil"
                      ELSE LET delim == detectDelimiter(LineOfText(input, Min(before1 \cup {err.line}))).delim
                               path == IF before1 = {} THEN detectDelimiter(line).path
                                       ELSE TrimSpace(SubSeq(line, Len(delim) + 2, Len(line)))
                           IN /\ BeginsAt(line, 1, delim)
                              /\ validatePath(path) # "nil"
                              /\ err.path = path

\* C23 witness: after a blank line and "> a", the declaration "> .." on
\* line 3 is rejected
C23_Witness ==
    /\ origin = "ParseSiloFile"
    /\ pc = "failed"
    /\ input = <<LF, GT, SP, Sample.a, LF, GT, SP, DOT, DOT, LF>>
    /\ err.kind = "InvalidPath"
    /\ err.line = 3
    /\ doc = NilDoc

\* C24: when WriteTo fails with DelimiterCollision or NoSafeDelimiter it
\* has written nothing to the sink and has left the Document unchanged:
\* the records are untouched, an explicit delimiter keeps its value and a
\* delimiter that was unset before a failed selection is still unset.
C24_FailureChangesNothing ==
    (pc = "written" /\ err # Nil) =>
        /\ err.kind \in {"DelimiterCollision", "NoSafeDelimiter"}
        /\ out = <<>>
        /\ doc.Files = before.Files
        /\ doc.Delimiter = before.Delimiter
        /\ err.kind = "NoSafeDelimiter" => before.Delimiter = <<>>
        /\ err.kind = "DelimiterCollision" => before.Delimiter # <<>>

\* C24 witness: the explicit delimiter ">" collides in the second of two
\* records; "=" is suggested, and the Document still carries ">"
C24_Witness ==
    /\ pc = "written"
    /\ err.kind = "DelimiterCollision"
    /\ err.suggestion = <<EQ>>
    /\ Len(before.Files) = 2
    /\ ~FileCollides(before.Files[1], <<GT>>)
    /\ FileCollides(before.Files[2], <<GT>>)
    /\ doc.Delimiter = <<GT>>
    /\ out = <<>>

\* C25: every Document ParseSiloFile returns can be written back: WriteTo
\* on it, with the detected delimiter it carries, succeeds, because no line
\* of any parsed record's content starts with that delimiter and a space.
C25_ParsedCanBeWritten ==
    /\ (origin = "ParseSiloFile" /\ pc = "built") => ~DocCollides(doc.Files, doc.Delimiter)
    /\ (origin = "ParseSiloFile" /\ pc = "written") => err = Nil

\* The paths of the records, in order
Paths(files) == [f \in 1..Len(files) |-> files[f].Path]

\* C26: whatever the library packs it can unpack: when WriteTo succeeds on
\* a Document built by ReadDirectoryTree or ReadFiles, ParseSiloFile accepts
\* the emitted text and returns as many records, with the same paths.
C26_PackedCanBeParsed ==
    (origin \in {"ReadFiles", "ReadDirectoryTree"} /\ pc = "reparsed") =>
        /\ parsed.err = Nil
        /\ Len(parsed.doc.Files) = Len(before.Files)
        /\ Paths(parsed.doc.Files) = Paths(before.Files)

\* C27: an auto-selected delimiter is adopted permanently: after WriteTo
\* succeeds on a Document with unset delimiter the Document holds the
\* selected token; a second WriteTo on the unchanged Document succeeds and
\* emits the same text; and when a content was changed in between so that
\* a line starts with the token and a space, the second WriteTo fails with
\* DelimiterCollision and selects no other delimiter.
C27_SelectionAdopted ==
    /\ (pc = "written" /\ before.Delimiter = <<>> /\ err = Nil) =>
          /\ doc.Delimiter \in Tokens
          /\ doc.Files = before.Files
          /\ doc.Files # <<>> => ReadsAt(out, 1, doc.Delimiter \o <<SP>>)
    /\ (pc = "rewritten" /\ before.Delimiter = <<>>) =>
          /\ ret.from.Delimiter \in Tokens
          /\ doc.Delimiter = ret.from.Delimiter
          /\ ret.from.Files = before.Files => (ret.err = Nil /\ ret.out = out)
          /\ DocCollides(ret.from.Files, ret.from.Delimiter) =>
                (ret.err.kind = "DelimiterCollision" /\ ret.out = <<>>)

\* C27 witness: ">" was selected and adopted; the content of the record was
\* then changed to "> x", and the second WriteTo fails with the collision
\* although "=" is free
C27_Witness ==
    /\ pc = "rewritten"
    /\ before.Delimiter = <<>>
    /\ Len(before.Files) = 1
    /\ before.Files[1].Content = <<Sample.x, LF>>
    /\ ret.from.Files[1].Content = <<GT, SP, Sample.x, LF>>
    /\ ret.err.kind = "DelimiterCollision"
    /\ ret.err.suggestion = <<EQ>>
    /\ doc.Delimiter = <<GT>>

\* C28: a failed pack leaves the output file alone: when pack is run with
\* -o and the Document cannot be written (the explicit delimiter collides
\* or no safe delimiter exists), the named output file is neither created
\* nor truncated.
C28_FailedPackKeepsOutputFile ==
    [][(/\ pc' = "packed"
        /\ args'.outputFile # <<>>
        /\ err'.kind \in {"DelimiterCollision", "NoSafeDelimiter"})
       => /\ IsFile(fs', args'.outputFile) <=> IsFile(fs, args'.outputFile)
          /\ IsFile(fs, args'.outputFile) => fs'[args'.outputFile] = fs[args'.outputFile]]_vars

\* C29: unpacking never overwrites one record with another: for every
\* Document ParseSiloFile returns, WriteToDirectory writes each record to a
\* different file, so after a successful unpack into a directory without
\* files the host holds as many files as the Document has records.
C29_OneFileForEachRecord ==
    (pc = "unpacked" /\ err = Nil) =>
        /\ DistinctPaths(doc.Files)
        /\ Cardinality(DOMAIN fs) = Len(doc.Files)


\* ValidatePattern's result when at most depth nested calls are allowed:
\* "DepthExceeded" when the pattern asks for one more
RECURSIVE ValidateWithin(_, _, _)
ValidateWithin(sge, pattern, depth) ==
    IF Contains(pattern, <<PERCENT>>) /\ QueryUnescape(pattern).err = "nil"
    THEN IF depth = 0 THEN "DepthExceeded"
         ELSE LET inner == ValidateWithin(sge, QueryUnescape(pattern).value, depth - 1)
              IN IF inner = "DepthExceeded" THEN "DepthExceeded"
                 ELSE IF inner # "nil" THEN "EncodedForbidden"
                 ELSE PatternChecks(sge, pattern)
    ELSE PatternChecks(sge, pattern)

\* C30: ValidatePattern terminates: it calls itself only on the successfully
\* percent-decoded form of a pattern that contains "%", that form is strictly
\* shorter than the pattern, and so its result is reached within as many
\* nested calls as the pattern has characters.
C30_DecodingTerminates ==
    (origin = "ValidatePattern" /\ pc = "done") =>
        /\ (Contains(input, <<PERCENT>>) /\ QueryUnescape(input).err = "nil") =>
              Len(QueryUnescape(input).value) < Len(input)
        /\ ret \in {"nil", "EncodedForbidden", PatternChecks(args, input)}
        /\ ret = ValidateWithin(args, input, Len(input))

\* C30 witness: "%252e" is validated; it decodes to "%2e", which is shorter
\* and decodes again, to "."
C30_Witness ==
    /\ origin = "ValidatePattern"
    /\ pc = "done"
    /\ input = <<PERCENT, Sample.two, Sample.five, Sample.two, Sample.e>>
    /\ QueryUnescape(input) = [value |-> <<PERCENT, Sample.two, Sample.e>>, err |-> "nil"]
    /\ QueryUnescape(QueryUnescape(input).value) = [value |-> <<DOT>>, err |-> "nil"]
    /\ ret = "nil"

====
